---- MODULE Spec2Model ----
(***************************************************************************)
(* The patch tool of claudetool/patch.go: one PatchTool instance, its      *)
(* clipboards, one file on disk, and PatchTool.Run resolving a batch of    *)
(* patch requests against a snapshot of that file.                         *)
(*                                                                         *)
(* Text is a sequence of one-character strings; offsets are 0-based byte   *)
(* offsets as in Go.                                                       *)
(***************************************************************************)
EXTENDS Integers, Sequences, FiniteSets, TLC

\* ------------------------------------------------------------------ text

NL == "\n"
SP == " "

\* s[off : off+n]
Slice(s, off, n) == SubSeq(s, off + 1, off + n)

\* strings.HasPrefix
HasPrefix(s, p) == Len(p) <= Len(s) /\ SubSeq(s, 1, Len(p)) = p

\* s[n:]
Drop(s, n) == SubSeq(s, n + 1, Len(s))

\* the offsets at which needle occurs verbatim in haystack
Occurrences(haystack, needle) ==
    {k \in 0..(Len(haystack) - Len(needle)) : Slice(haystack, k, Len(needle)) = needle}

\* the least element of a non-empty set of integers
Min(S) == CHOOSE x \in S : \A y \in S : x <= y

\* strings.Split(text, "\n")
RECURSIVE Split(_)
Split(text) ==
    LET nls == {k \in 1..Len(text) : text[k] = NL}
    IN  IF nls = {} THEN <<text>>
        ELSE <<SubSeq(text, 1, Min(nls) - 1)>> \o Split(Drop(text, Min(nls)))

\* strings.Join(lines, "\n")
RECURSIVE Join(_)
Join(lines) ==
    IF Len(lines) = 0 THEN <<>>
    ELSE IF Len(lines) = 1 THEN lines[1]
    ELSE lines[1] \o <<NL>> \o Join(Tail(lines))

\* the number of leading spaces of a line
RECURSIVE Indent(_)
Indent(line) ==
    IF Len(line) > 0 /\ line[1] = SP THEN 1 + Indent(Tail(line)) ELSE 0

\* a line without its leading spaces
TrimLeft(line) == Drop(line, Indent(line))

\* a line without its leading and trailing spaces
RECURSIVE TrimSpace(_)
TrimSpace(line) ==
    LET l == TrimLeft(line)
    IN  IF Len(l) > 0 /\ l[Len(l)] = SP THEN TrimSpace(SubSeq(l, 1, Len(l) - 1)) ELSE l

\* n spaces
RECURSIVE Spaces(_)
Spaces(n) == IF n <= 0 THEN <<>> ELSE <<SP>> \o Spaces(n - 1)

\* --------------------------------------------------------------- reindent

NoReindent == [set |-> FALSE, Strip |-> <<>>, Add |-> <<>>]

\* pass 1 of reindent: the index of the first non-empty line that does not
\* start with Strip, or 0
\* FirstBadLine naming the last such line
LastBadLine(lines, strip) ==
    LET bad == {k \in 1..Len(lines) : lines[k] # <<>> /\ ~HasPrefix(lines[k], strip)}
    IN  IF bad = {} THEN 0 ELSE CHOOSE k \in bad : \A j \in bad : j <= k
FirstBadLine(lines, strip) ==
    LET bad == {k \in 1..Len(lines) : lines[k] # <<>> /\ ~HasPrefix(lines[k], strip)}
    IN  IF bad = {} THEN 0 ELSE Min(bad)

\* pass 1 and pass 2 of reindent on one line
Restrip(line, adj) == IF line = <<>> THEN <<>> ELSE Drop(line, Len(adj.Strip))
\* Readd with the prefix added to empty lines too
ReaddAlways(line, adj) == adj.Add \o line
Readd(line, adj) == IF line = <<>> THEN <<>> ELSE adj.Add \o line

\* the two passes over the lines, the first bad line being line `bad`
ReindentLines(lines, adj, bad) ==
    IF bad # 0 THEN [ok |-> FALSE, text |-> <<>>, line |-> lines[bad]]
    ELSE [ok |-> TRUE, line |-> <<>>,
          text |-> Join([k \in 1..Len(lines) |-> Readd(Restrip(lines[k], adj), adj)])]

\* reindent(text, adj): [ok, text, line]
Reindent(text, adj) ==
    IF ~adj.set THEN [ok |-> TRUE, text |-> text, line |-> <<>>]
    ELSE ReindentLines(Split(text), adj, FirstBadLine(Split(text), adj.Strip))

\* ------------------------------------------------- matching tiers (patchkit)

NoSpec == [ok |-> FALSE, Off |-> 0, Len |-> 0]
Found(off, n) == [ok |-> TRUE, Off |-> off, Len |-> n]

\* tier 1, exact: the count of verbatim occurrences (2 stands for two or
\* more) and, when it is 1, the span of the occurrence
UniqueAmong(occ, n) ==
    IF occ = {} THEN [count |-> 0, spec |-> NoSpec]
    ELSE IF Cardinality(occ) = 1 THEN [count |-> 1, spec |-> Found(Min(occ), n)]
    ELSE [count |-> 2, spec |-> NoSpec]
Unique(haystack, needle) == UniqueAmong(Occurrences(haystack, needle), Len(needle))

\* the lines of a text with every non-empty line's indentation changed by d
\* spaces; defined when every non-empty line has the spaces to give up
CanShift(lines, d) ==
    \A k \in 1..Len(lines) : lines[k] = <<>> \/ Indent(lines[k]) + d >= 0
Shift(lines, d) ==
    [k \in 1..Len(lines) |->
        IF lines[k] = <<>> THEN <<>>
        ELSE IF d >= 0 THEN Spaces(d) \o lines[k] ELSE Drop(lines[k], 0 - d)]

\* the lines that are not blank
NonBlank(lines) == {k \in 1..Len(lines) : TrimLeft(lines[k]) # <<>>}

\* the indentation deltas between a needle's first non-blank line and the
\* document lines that anchor it
DedentDeltas(dls, first) ==
    {Indent(dls[k]) - Indent(first) :
        k \in {j \in 1..Len(dls) : TrimLeft(dls[j]) = TrimLeft(first)}} \ {0}

\* the alignments <<delta, offset>> of the re-indented needle in the document
AlignmentsOf(haystack, nls, ne) ==
    IF ne = {} THEN {}
    ELSE UNION {{<<d, off>> : off \in Occurrences(haystack, Join(Shift(nls, d)))} :
                    d \in {e \in DedentDeltas(Split(haystack), nls[Min(ne)]) : CanShift(nls, e)}}
DedentAlignments(haystack, needle) ==
    AlignmentsOf(haystack, Split(needle), NonBlank(Split(needle)))

\* tier 2, dedent: the needle modulo one uniform indentation delta; exactly
\* one alignment of a re-indented needle in the document
AlignedSpan(a, nls) == Found(a[2], Len(Join(Shift(nls, a[1]))))
OnlyAlignment(al, nls) ==
    IF Cardinality(al) # 1 THEN NoSpec ELSE AlignedSpan(CHOOSE x \in al : TRUE, nls)
UniqueDedent(haystack, needle) ==
    OnlyAlignment(DedentAlignments(haystack, needle), Split(needle))

\* the grammar's validity check: braces are balanced
RECURSIVE Depth(_, _)
Depth(text, d) ==
    IF d < 0 THEN 0 - 1
    ELSE IF text = <<>> THEN d
    ELSE Depth(Tail(text), IF text[1] = "{" THEN d + 1 ELSE IF text[1] = "}" THEN d - 1 ELSE d)
IsWellFormed(text) == Depth(text, 0) = 0

\* the offset at which line k of a split text starts
RECURSIVE LineStart(_, _)
LineStart(lines, k) ==
    IF k <= 1 THEN 0 ELSE LineStart(lines, k - 1) + Len(lines[k - 1]) + 1

\* a text with the span [off, off+n) replaced
Substitute(text, off, n, new) == Slice(text, 0, off) \o new \o Drop(text, off + n)

\* a text ends with a newline: its split has a last, empty line
EndsNL(lines) == Len(lines) > 1 /\ lines[Len(lines)] = <<>>

\* the span of the m whole document lines from line j, with the last
\* line's newline when nl = 1
LineSpan(dls, j, m, nl) ==
    Found(LineStart(dls, j),
          LineStart(dls, j + m - 1) + Len(dls[j + m - 1]) + nl - LineStart(dls, j))

\* the runs of whole document lines that equal the lines `core` up to
\* leading and trailing spaces
LineRuns(dls, core, nl) ==
    IF \A k \in 1..Len(core) : TrimSpace(core[k]) = <<>> THEN {}
    ELSE {LineSpan(dls, j, Len(core), nl) :
            j \in {h \in 1..(Len(dls) - Len(core) + 1 - nl) :
                    \A k \in 1..Len(core) : TrimSpace(dls[h + k - 1]) = TrimSpace(core[k])}}
CandidatesOf(dls, nls) ==
    IF EndsNL(nls) THEN LineRuns(dls, SubSeq(nls, 1, Len(nls) - 1), 1)
    ELSE LineRuns(dls, nls, 0)
ValidGoCandidates(haystack, needle) == CandidatesOf(Split(haystack), Split(needle))

\* tier 3, whitespace match bounded by validity: the needle's lines equal
\* exactly one run of whole document lines up to leading and trailing
\* spaces, in a document the grammar accepts before and after the
\* substitution
ValidAfter(haystack, c, replace) ==
    IF IsWellFormed(Substitute(haystack, c.Off, c.Len, replace)) THEN c ELSE NoSpec
OnlyCandidate(haystack, cands, replace) ==
    IF ~IsWellFormed(haystack) \/ Cardinality(cands) # 1 THEN NoSpec
    ELSE ValidAfter(haystack, CHOOSE x \in cands : TRUE, replace)
UniqueInValidGo(haystack, needle, replace) ==
    OnlyCandidate(haystack, ValidGoCandidates(haystack, needle), replace)

\* the tokens of a text: its characters other than spaces and newlines,
\* each with its offset
RECURSIVE Tokens(_, _)
Tokens(text, off) ==
    IF text = <<>> THEN <<>>
    ELSE IF text[1] \in {SP, NL} THEN Tokens(Tail(text), off + 1)
    ELSE <<[ch |-> text[1], off |-> off]>> \o Tokens(Tail(text), off + 1)

\* the windows of the document's tokens that equal the needle's tokens
WindowsOf(ht, nt) ==
    IF Len(nt) = 0 THEN {}
    ELSE {k \in 1..(Len(ht) - Len(nt) + 1) : \A j \in 1..Len(nt) : ht[k + j - 1].ch = nt[j].ch}
TokenWindows(haystack, needle) == WindowsOf(Tokens(haystack, 0), Tokens(needle, 0))

\* tier 4, token stream: exactly one window of the document's tokens equals
\* the needle's tokens; the span runs from the first to the last token
WindowSpan(ht, w, m) == Found(ht[w].off, ht[w + m - 1].off + 1 - ht[w].off)
OnlyWindow(ht, wins, m) ==
    IF Cardinality(wins) # 1 THEN NoSpec ELSE WindowSpan(ht, CHOOSE x \in wins : TRUE, m)
UniqueGoTokens(haystack, needle) ==
    OnlyWindow(Tokens(haystack, 0), TokenWindows(haystack, needle), Len(Tokens(needle, 0)))

\* a line that may be dropped: a comment line
IsComment(line) == HasPrefix(TrimLeft(line), <<"#">>)

\* a needle of several lines whose first line is a comment
CanTrim(nls) == Len(nls) >= 2 /\ IsComment(nls[1]) /\ Join(Tail(nls)) # <<>>

\* the occurrences of a needle without its first line
TrimOccurrences(haystack, needle) ==
    IF CanTrim(Split(needle)) THEN Occurrences(haystack, Join(Tail(Split(needle)))) ELSE {}

\* tier 5, first line trimmed: the needle without its first line occurs
\* exactly once
OnlyOccurrence(occ, n) == IF Cardinality(occ) # 1 THEN NoSpec ELSE Found(Min(occ), n)
UniqueTrim(haystack, needle) ==
    OnlyOccurrence(TrimOccurrences(haystack, needle), Len(Join(Tail(Split(needle)))))

\* ------------------------------------------------------ edit buffer (editbuf)

\* buf.Replace(off, off+n, text) and buf.Insert(off, text): one more pending
\* edit, in the coordinates of the original
BufReplace(buf, off, n, text) == Append(buf, [Off |-> off, Len |-> n, New |-> text])
BufInsert(buf, off, text) == BufReplace(buf, off, 0, text)

\* spec.ApplyToEditBuf(buf)
ApplyToEditBuf(spec, new, buf) == BufReplace(buf, spec.Off, spec.Len, new)

\* two pending edits whose spans [Off, Off+Len) intersect
Overlaps(e, f) == e.Off < f.Off + f.Len /\ f.Off < e.Off + e.Len
HasOverlap(buf) ==
    \E j, k \in 1..Len(buf) : j < k /\ Overlaps(buf[j], buf[k])

\* edit j is emitted before edit k: by offset, an insertion before a
\* replacement at the same offset, then in the order of registration
Before(buf, j, k) ==
    \/ buf[j].Off < buf[k].Off
    \/ buf[j].Off = buf[k].Off /\ buf[j].Len < buf[k].Len
    \/ buf[j].Off = buf[k].Off /\ buf[j].Len = buf[k].Len /\ j < k

\* the pending edits sorted for emission
RECURSIVE SortEdits(_, _)
SortEdits(buf, left) ==
    IF left = {} THEN <<>>
    ELSE LET j == CHOOSE x \in left : \A y \in left \ {x} : Before(buf, x, y)
         IN  <<buf[j]>> \o SortEdits(buf, left \ {j})

\* the original replayed from offset `at` with the sorted edits substituted
RECURSIVE Replay(_, _, _)
Replay(orig, edits, at) ==
    IF edits = <<>> THEN Drop(orig, at)
    ELSE Slice(orig, at, edits[1].Off - at) \o edits[1].New
            \o Replay(orig, Tail(edits), edits[1].Off + edits[1].Len)

\* buf.Bytes(): the final bytes, or an overlap error
Bytes(orig, buf) ==
    IF HasOverlap(buf) THEN [ok |-> FALSE, data |-> <<>>]
    ELSE [ok |-> TRUE, data |-> Replay(orig, SortEdits(buf, 1..Len(buf)), 0)]

\* ------------------------------------------------------------- patchRun

\* a PatchRequest
Patch(op, old, new, to, from, re) ==
    [Operation |-> op, OldText |-> old, NewText |-> new,
     ToClipboard |-> to, FromClipboard |-> from, Reindent |-> re]

\* p.clipboards[name] = text
SetClipboard(clips, name, text) ==
    [n \in DOMAIN clips \cup {name} |-> IF n = name THEN text ELSE clips[n]]

\* an entry of the error a batch returns
Err(kind, text) == [kind |-> kind, text |-> text]

\* OnlyCreating with only the first patch looked at
OnlyFirstCreating(patches) ==
    patches[1].Operation \in {"prepend_bof", "append_eof", "overwrite"}

\* the file does not exist: every patch must be one that needs no existing
\* text
OnlyCreating(patches) ==
    \A k \in 1..Len(patches) :
        patches[k].Operation \in {"prepend_bof", "append_eof", "overwrite"}

\* strings.HasSuffix(input.Path, ".go")
LikelyGoFile(path) == path.ext = ".go"

\* CaptureOldText with the old text stored before the checks
CaptureBeforeChecks(patch, clips) ==
    IF patch.ToClipboard = "" THEN [abort |-> "", clipboards |-> clips]
    ELSE IF patch.Operation # "replace"
         THEN [abort |-> "to_clipboard_operation",
               clipboards |-> SetClipboard(clips, patch.ToClipboard, patch.OldText)]
    ELSE IF patch.OldText = <<>>
         THEN [abort |-> "to_clipboard_empty_old_text",
               clipboards |-> SetClipboard(clips, patch.ToClipboard, patch.OldText)]
    ELSE [abort |-> "", clipboards |-> SetClipboard(clips, patch.ToClipboard, patch.OldText)]

\* CaptureOldText with the checks only: nothing is stored before the match
CaptureNothing(patch, clips) ==
    IF patch.ToClipboard = "" THEN [abort |-> "", clipboards |-> clips]
    ELSE IF patch.Operation # "replace"
         THEN [abort |-> "to_clipboard_operation", clipboards |-> clips]
    ELSE IF patch.OldText = <<>>
         THEN [abort |-> "to_clipboard_empty_old_text", clipboards |-> clips]
    ELSE [abort |-> "", clipboards |-> clips]

\* toClipboard is processed first: the error it returns ("" for none) and
\* the clipboards after it
CaptureOldText(patch, clips) ==
    IF patch.ToClipboard = "" THEN [abort |-> "", clipboards |-> clips]
    ELSE IF patch.Operation # "replace"
         THEN [abort |-> "to_clipboard_operation", clipboards |-> clips]
    ELSE IF patch.OldText = <<>>
         THEN [abort |-> "to_clipboard_empty_old_text", clipboards |-> clips]
    ELSE [abort |-> "", clipboards |-> SetClipboard(clips, patch.ToClipboard, patch.OldText)]

\* fromClipboard: the new text of the patch
ResolveNewText(patch, clips) ==
    IF patch.FromClipboard = "" THEN [ok |-> TRUE, text |-> patch.NewText]
    ELSE IF patch.FromClipboard \notin DOMAIN clips THEN [ok |-> FALSE, text |-> <<>>]
    ELSE [ok |-> TRUE, text |-> clips[patch.FromClipboard]]

\* UpdateToClipboard with the old text of the request stored, not the text
\* of the matched span
UpdateKeepsOldText(patch, spec, origStr, clips, mods) ==
    IF patch.ToClipboard = "" THEN [clipboards |-> clips, clipboardsModified |-> mods]
    ELSE [clipboards |-> SetClipboard(clips, patch.ToClipboard, patch.OldText),
          clipboardsModified |->
              Append(mods, [name |-> patch.ToClipboard,
                            text |-> Slice(origStr, spec.Off, spec.Len)])]

\* updateToClipboard: the clipboard takes the text actually matched, and
\* the response a note of it
UpdateToClipboard(patch, spec, origStr, clips, mods) ==
    IF patch.ToClipboard = "" THEN [clipboards |-> clips, clipboardsModified |-> mods]
    ELSE LET matchedOldText == Slice(origStr, spec.Off, spec.Len)
         IN  [clipboards |-> SetClipboard(clips, patch.ToClipboard, matchedOldText),
              clipboardsModified |->
                  Append(mods, [name |-> patch.ToClipboard, text |-> matchedOldText])]

\* the matchers tried for a replace, in order, and what came of them:
\* method is the matcher that applied, or "not_unique", "internal_error",
\* "not_found"; tried lists the matchers called (1 Unique, 2 UniqueDedent,
\* 3 UniqueInValidGo, 4 UniqueGoTokens, 5 UniqueTrim); update says whether
\* updateToClipboard is called
Outcome(method, spec, tried, update) ==
    [method |-> method, spec |-> spec, tried |-> tried, update |-> update]
\* LadderOf with the token matcher tried before the dedent matcher
LadderTokensFirst(u, d, v, t, r) ==
    IF u.count = 1 THEN Outcome("unique", u.spec, <<1>>, FALSE)
    ELSE IF u.count = 2 THEN Outcome("not_unique", NoSpec, <<1>>, FALSE)
    ELSE IF u.count # 0 THEN Outcome("internal_error", NoSpec, <<1>>, FALSE)
    ELSE IF t.ok THEN Outcome("unique_go_tokens", t, <<1, 4>>, TRUE)
    ELSE IF d.ok THEN Outcome("unique_dedent", d, <<1, 4, 2>>, TRUE)
    ELSE IF v.ok THEN Outcome("unique_in_valid_go", v, <<1, 4, 2, 3>>, TRUE)
    ELSE IF r.ok THEN Outcome("unique_trim", r, <<1, 4, 2, 3, 5>>, FALSE)
    ELSE Outcome("not_found", NoSpec, <<1, 4, 2, 3, 5>>, FALSE)

\* LadderOf with a count of 2 going on to the heuristic matchers
LadderPastAmbiguity(u, d, v, t, r) ==
    IF u.count = 1 THEN Outcome("unique", u.spec, <<1>>, FALSE)
    ELSE IF d.ok THEN Outcome("unique_dedent", d, <<1, 2>>, TRUE)
    ELSE IF v.ok THEN Outcome("unique_in_valid_go", v, <<1, 2, 3>>, TRUE)
    ELSE IF t.ok THEN Outcome("unique_go_tokens", t, <<1, 2, 3, 4>>, TRUE)
    ELSE IF r.ok THEN Outcome("unique_trim", r, <<1, 2, 3, 4, 5>>, FALSE)
    ELSE Outcome("not_found", NoSpec, <<1, 2, 3, 4, 5>>, FALSE)

\* LadderOf without the case of a count of 2, which falls to the default
LadderNoCaseTwo(u, d, v, t, r) ==
    IF u.count = 1 THEN Outcome("unique", u.spec, <<1>>, FALSE)
    ELSE IF u.count # 0 THEN Outcome("internal_error", NoSpec, <<1>>, FALSE)
    ELSE IF d.ok THEN Outcome("unique_dedent", d, <<1, 2>>, TRUE)
    ELSE IF v.ok THEN Outcome("unique_in_valid_go", v, <<1, 2, 3>>, TRUE)
    ELSE IF t.ok THEN Outcome("unique_go_tokens", t, <<1, 2, 3, 4>>, TRUE)
    ELSE IF r.ok THEN Outcome("unique_trim", r, <<1, 2, 3, 4, 5>>, FALSE)
    ELSE Outcome("not_found", NoSpec, <<1, 2, 3, 4, 5>>, FALSE)

\* LadderOf with updateToClipboard called after the trim matcher too
LadderTrimUpdates(u, d, v, t, r) ==
    IF u.count = 1 THEN Outcome("unique", u.spec, <<1>>, FALSE)
    ELSE IF u.count = 2 THEN Outcome("not_unique", NoSpec, <<1>>, FALSE)
    ELSE IF u.count # 0 THEN Outcome("internal_error", NoSpec, <<1>>, FALSE)
    ELSE IF d.ok THEN Outcome("unique_dedent", d, <<1, 2>>, TRUE)
    ELSE IF v.ok THEN Outcome("unique_in_valid_go", v, <<1, 2, 3>>, TRUE)
    ELSE IF t.ok THEN Outcome("unique_go_tokens", t, <<1, 2, 3, 4>>, TRUE)
    ELSE IF r.ok THEN Outcome("unique_trim", r, <<1, 2, 3, 4, 5>>, TRUE)
    ELSE Outcome("not_found", NoSpec, <<1, 2, 3, 4, 5>>, FALSE)

\* the switch on the result of Unique and the heuristic matchers after it
LadderOf(u, d, v, t, r) ==
    IF u.count = 1 THEN Outcome("unique", u.spec, <<1>>, FALSE)
    ELSE IF u.count = 2 THEN Outcome("not_unique", NoSpec, <<1>>, FALSE)
    ELSE IF u.count # 0 THEN Outcome("internal_error", NoSpec, <<1>>, FALSE)
    ELSE IF d.ok THEN Outcome("unique_dedent", d, <<1, 2>>, TRUE)
    ELSE IF v.ok THEN Outcome("unique_in_valid_go", v, <<1, 2, 3>>, TRUE)
    ELSE IF t.ok THEN Outcome("unique_go_tokens", t, <<1, 2, 3, 4>>, TRUE)
    ELSE IF r.ok THEN Outcome("unique_trim", r, <<1, 2, 3, 4, 5>>, FALSE)
    ELSE Outcome("not_found", NoSpec, <<1, 2, 3, 4, 5>>, FALSE)
Ladder(origStr, oldText, newText) ==
    LadderOf(Unique(origStr, oldText), UniqueDedent(origStr, oldText),
             UniqueInValidGo(origStr, oldText, newText), UniqueGoTokens(origStr, oldText),
             UniqueTrim(origStr, oldText))

\* the matching error a replace adds to patchErr
MatchError(method, oldText) ==
    IF method = "not_unique" THEN <<Err("old text not unique", oldText)>>
    ELSE IF method = "internal_error" THEN <<Err("internal error", <<>>)>>
    ELSE IF method = "not_found" THEN <<Err("old text not found", oldText)>>
    ELSE <<>>

\* what one iteration of the loop over input.Patches leaves
Iter(abort, clips, buf, perr, mods, newText, o) ==
    [abort |-> abort, clipboards |-> clips, buf |-> buf, patchErr |-> perr,
     clipboardsModified |-> mods, newText |-> newText, outcome |-> o,
     detail |-> <<>>]
\* the arguments of the error that patchRun makes of a failed reindent
ReindentError(adj, re) == <<adj.Strip, adj.Add, re.line, adj.Strip>>
NoOutcome == Outcome("", NoSpec, <<>>, FALSE)

\* Register with the matching error assigned to patchErr, not joined to it
RegisterLastError(patch, newText, origStr, clips, buf, perr, mods, o) ==
    IF ~o.spec.ok
    THEN Iter("", clips, buf, MatchError(o.method, patch.OldText), mods, newText, o)
    ELSE IF o.update
    THEN Iter("", UpdateToClipboard(patch, o.spec, origStr, clips, mods).clipboards,
              ApplyToEditBuf(o.spec, newText, buf), perr,
              UpdateToClipboard(patch, o.spec, origStr, clips, mods).clipboardsModified,
              newText, o)
    ELSE Iter("", clips, ApplyToEditBuf(o.spec, newText, buf), perr, mods, newText, o)

\* Register with the edit given the length of the old text of the request
RegisterOldLength(patch, newText, origStr, clips, buf, perr, mods, o) ==
    IF ~o.spec.ok
    THEN Iter("", clips, buf, perr \o MatchError(o.method, patch.OldText), mods, newText, o)
    ELSE IF o.update
    THEN Iter("", UpdateToClipboard(patch, o.spec, origStr, clips, mods).clipboards,
              BufReplace(buf, o.spec.Off, Len(patch.OldText), newText), perr,
              UpdateToClipboard(patch, o.spec, origStr, clips, mods).clipboardsModified,
              newText, o)
    ELSE Iter("", clips, BufReplace(buf, o.spec.Off, Len(patch.OldText), newText),
              perr, mods, newText, o)

\* the bytes that the edits registered so far put into the text
RECURSIVE Growth(_)
Growth(buf) ==
    IF buf = <<>> THEN 0 ELSE Len(buf[1].New) + Growth(Tail(buf))
\* Register with the edit placed at the offset the span would have after
\* the edits registered so far
RegisterShifted(patch, newText, origStr, clips, buf, perr, mods, o) ==
    IF ~o.spec.ok
    THEN Iter("", clips, buf, perr \o MatchError(o.method, patch.OldText), mods, newText, o)
    ELSE IF o.update
    THEN Iter("", UpdateToClipboard(patch, o.spec, origStr, clips, mods).clipboards,
              BufReplace(buf, Min({Len(origStr) - o.spec.Len, o.spec.Off + Growth(buf)}),
                         o.spec.Len, newText), perr,
              UpdateToClipboard(patch, o.spec, origStr, clips, mods).clipboardsModified,
              newText, o)
    ELSE Iter("", clips,
              BufReplace(buf, Min({Len(origStr) - o.spec.Len, o.spec.Off + Growth(buf)}),
                         o.spec.Len, newText),
              perr, mods, newText, o)

\* a replace whose matching came out as o: the edit is registered, with the
\* clipboard updated, or the matching error is joined to patchErr
Register(patch, newText, origStr, clips, buf, perr, mods, o) ==
    IF ~o.spec.ok
    THEN Iter("", clips, buf, perr \o MatchError(o.method, patch.OldText), mods, newText, o)
    ELSE IF o.update
    THEN Iter("", UpdateToClipboard(patch, o.spec, origStr, clips, mods).clipboards,
              ApplyToEditBuf(o.spec, newText, buf), perr,
              UpdateToClipboard(patch, o.spec, origStr, clips, mods).clipboardsModified,
              newText, o)
    ELSE Iter("", clips, ApplyToEditBuf(o.spec, newText, buf), perr, mods, newText, o)

\* the text as the edits registered so far leave it
Current(origStr, buf) ==
    IF Bytes(origStr, buf).ok THEN Bytes(origStr, buf).data ELSE origStr
\* ApplyOperation with a replace matched against the text as the earlier
\* operations of the batch leave it
ApplyOnCurrent(patch, newText, origStr, clips, buf, perr, mods) ==
    IF patch.Operation = "prepend_bof"
    THEN Iter("", clips, BufInsert(buf, 0, newText), perr, mods, newText, NoOutcome)
    ELSE IF patch.Operation = "append_eof"
    THEN Iter("", clips, BufInsert(buf, Len(origStr), newText), perr, mods, newText, NoOutcome)
    ELSE IF patch.Operation = "overwrite"
    THEN Iter("", clips, BufReplace(buf, 0, Len(origStr), newText), perr, mods, newText, NoOutcome)
    ELSE IF patch.Operation = "replace"
    THEN IF patch.OldText = <<>>
         THEN Iter("empty_old_text", clips, buf, perr, mods, newText, NoOutcome)
         ELSE Register(patch, newText, Current(origStr, buf), clips, buf, perr, mods,
                       Ladder(Current(origStr, buf), patch.OldText, newText))
    ELSE Iter("unrecognized_operation", clips, buf, perr, mods, newText, NoOutcome)

\* the switch on patch.Operation, with the new text resolved
ApplyOperation(patch, newText, origStr, clips, buf, perr, mods) ==
    IF patch.Operation = "prepend_bof"
    THEN Iter("", clips, BufInsert(buf, 0, newText), perr, mods, newText, NoOutcome)
    ELSE IF patch.Operation = "append_eof"
    THEN Iter("", clips, BufInsert(buf, Len(origStr), newText), perr, mods, newText, NoOutcome)
    ELSE IF patch.Operation = "overwrite"
    THEN Iter("", clips, BufReplace(buf, 0, Len(origStr), newText), perr, mods, newText, NoOutcome)
    ELSE IF patch.Operation = "replace"
    THEN IF patch.OldText = <<>>
         THEN Iter("empty_old_text", clips, buf, perr, mods, newText, NoOutcome)
         ELSE Register(patch, newText, origStr, clips, buf, perr, mods,
                       Ladder(origStr, patch.OldText, newText))
    ELSE Iter("unrecognized_operation", clips, buf, perr, mods, newText, NoOutcome)

\* Resolved with a clipboard miss falling back on the patch's own new text
ResolvedLenient(patch, origStr, clips, buf, perr, mods, src, re) ==
    IF ~src.ok THEN ApplyOperation(patch, patch.NewText, origStr, clips, buf, perr, mods)
    ELSE IF ~re.ok THEN [Iter("reindent", clips, buf, perr, mods, <<>>, NoOutcome)
                         EXCEPT !.detail = ReindentError(patch.Reindent, re)]
    ELSE ApplyOperation(patch, re.text, origStr, clips, buf, perr, mods)

\* Resolved with the reindented text stored back into the clipboard it
\* was taken from
ResolvedStoresBack(patch, origStr, clips, buf, perr, mods, src, re) ==
    IF ~src.ok THEN Iter("from_clipboard_miss", clips, buf, perr, mods, <<>>, NoOutcome)
    ELSE IF ~re.ok THEN [Iter("reindent", clips, buf, perr, mods, <<>>, NoOutcome)
                         EXCEPT !.detail = ReindentError(patch.Reindent, re)]
    ELSE IF patch.FromClipboard # "" /\ patch.Reindent.set
    THEN ApplyOperation(patch, re.text, origStr,
                        SetClipboard(clips, patch.FromClipboard, re.text),
                        buf, perr, mods)
    ELSE ApplyOperation(patch, re.text, origStr, clips, buf, perr, mods)

\* the patch with its new text taken from the clipboard (src) and
\* reindented (re)
Resolved(patch, origStr, clips, buf, perr, mods, src, re) ==
    IF ~src.ok THEN Iter("from_clipboard_miss", clips, buf, perr, mods, <<>>, NoOutcome)
    ELSE IF ~re.ok THEN [Iter("reindent", clips, buf, perr, mods, <<>>, NoOutcome)
                         EXCEPT !.detail = ReindentError(patch.Reindent, re)]
    ELSE ApplyOperation(patch, re.text, origStr, clips, buf, perr, mods)

\* the patch after toClipboard was processed (cap)
Captured(patch, origStr, buf, perr, mods, cap) ==
    IF cap.abort # "" THEN Iter(cap.abort, cap.clipboards, buf, perr, mods, <<>>, NoOutcome)
    ELSE Resolved(patch, origStr, cap.clipboards, buf, perr, mods,
                  ResolveNewText(patch, cap.clipboards),
                  Reindent(ResolveNewText(patch, cap.clipboards).text, patch.Reindent))

\* the body of the loop over input.Patches, for one patch
LoopBody(patch, origStr, clips, buf, perr, mods) ==
    Captured(patch, origStr, buf, perr, mods, CaptureOldText(patch, clips))

\* ---------------------------------------------------------------- inputs

\* the longest batch
MaxOps == 3

\* file contents and the texts of the requests
Doc1 == <<"{", NL, SP, "a", NL, SP, "b", SP, "b", NL, SP, "c", ":", "=", "d", NL, "}", NL>>
OldA == <<"a">>
OldB == <<"b">>
OldDedent == <<SP, SP, "a", NL>>
OldLines == <<"a", SP, NL, SP, "b", SP, "b", NL>>
OldTokens == <<"c", SP, ":", "=", SP, "d">>
OldTrim == <<"#", "x", NL, SP, "a", NL>>
OldAbsent == <<"z", "z">>
OldLoose == <<"b", SP, SP>>
OldAssign == <<"c", ":", "=", "d">>
NewX == <<"x">>
NewIndented == <<SP, "y", NL>>
StripOne == [set |-> TRUE, Strip |-> <<SP>>, Add |-> <<>>]

\* the files a batch may name: a Go file, a text file of the same content,
\* and a file that does not exist
Files ==
    { [path |-> [base |-> "main", ext |-> ".go"], exists |-> TRUE, data |-> Doc1],
      [path |-> [base |-> "notes", ext |-> ".txt"], exists |-> TRUE, data |-> Doc1],
      [path |-> [base |-> "new", ext |-> ".go"], exists |-> FALSE, data |-> <<>>] }

\* the patch requests a batch is made of
Patches ==
    { Patch("replace", OldA, NewX, "c", "", NoReindent),
      Patch("replace", OldB, NewX, "", "", NoReindent),
      Patch("replace", OldDedent, NewX, "c", "", NoReindent),
      Patch("replace", OldLines, NewX, "c", "", NoReindent),
      Patch("replace", OldTokens, NewX, "c", "", NoReindent),
      Patch("replace", OldTrim, NewX, "c", "", NoReindent),
      Patch("replace", OldAbsent, NewX, "", "", NoReindent),
      Patch("replace", OldLoose, NewX, "", "", NoReindent),
      Patch("replace", OldAssign, NewX, "", "c", NoReindent),
      Patch("replace", <<>>, NewX, "", "", NoReindent),
      Patch("prepend_bof", <<>>, NewX, "", "", NoReindent),
      Patch("append_eof", <<>>, NewIndented, "", "", StripOne),
      Patch("append_eof", <<>>, NewX, "", "", StripOne),
      Patch("append_eof", <<>>, NewX, "c", "", NoReindent),
      Patch("overwrite", <<>>, NewX, "", "", NoReindent),
      Patch("rename", <<>>, NewX, "", "", NoReindent) }

\* the batches: every sequence of at most MaxOps patch requests
Batches == UNION {[1..n -> Patches] : n \in 0..MaxOps}

\* ----------------------------------------------------------------- state

VARIABLES
    path,               \* the file the batch names
    fileExists,         \* the file on disk
    fileData,
    writes,             \* the calls of os.WriteFile
    clipboards,         \* p.clipboards
    pc,                 \* "idle", "loop" or "done"
    input,              \* input.Patches
    i,                  \* the loop's position in input.Patches, from 1
    orig,               \* origStr
    buf,                \* the edit buffer's pending edits
    patchErr,           \* the joined matching errors
    clipboardsModified, \* the notes of updateToClipboard
    log,                \* what each iteration of the loop did
    out,                \* the tool's output
    calls,              \* the calls of Run that returned
    clipboardsAtStart,  \* p.clipboards when the call of Run started
    lastWrite,          \* per clipboard name, the last assignment to it
    other,              \* a second call of Run on the tool: its locals
    serialized          \* the caller runs one call of Run at a time

vars == <<path, fileExists, fileData, writes, clipboards, pc, input, i, orig, buf,
          patchErr, clipboardsModified, log, out, calls, clipboardsAtStart, lastWrite,
          other, serialized>>

NoOut == [kind |-> "none", errs |-> <<>>, notes |-> <<>>]
ErrorOut(errs, notes) == [kind |-> "error", errs |-> errs, notes |-> notes]
AppliedOut(notes) == [kind |-> "applied", errs |-> <<>>, notes |-> notes]

\* a call of Run that has not started
IdleCall ==
    [pc |-> "idle", input |-> <<>>, i |-> 0, orig |-> <<>>, buf |-> <<>>, patchErr |-> <<>>,
     clipboardsModified |-> <<>>, log |-> <<>>, out |-> NoOut, clipboardsAtStart |-> <<>>]

\* the tool as constructed, before any call
Fresh ==
    /\ \E f \in Files :
        /\ path = f.path
        /\ fileExists = f.exists
        /\ fileData = f.data
    /\ writes = 0
    /\ clipboards = <<>>
    /\ pc = "idle"
    /\ input = <<>>
    /\ i = 0
    /\ orig = <<>>
    /\ buf = <<>>
    /\ patchErr = <<>>
    /\ clipboardsModified = <<>>
    /\ log = <<>>
    /\ out = NoOut
    /\ calls = 0
    /\ clipboardsAtStart = <<>>
    /\ lastWrite = <<>>
    /\ other = IdleCall

Init == Fresh /\ serialized = TRUE

disk == <<fileExists, fileData, writes>>
batch == <<orig, buf, patchErr, clipboardsModified, log>>

\* Run with no patches
RunNoPatches(patches) ==
    /\ pc = "idle"
    /\ Len(patches) = 0
    /\ input' = patches
    /\ out' = ErrorOut(<<Err("no patches provided", <<>>)>>, <<>>)
    /\ pc' = "done"
    /\ clipboardsAtStart' = clipboards
    /\ UNCHANGED <<path, other, serialized, disk, clipboards, i, batch, calls, lastWrite>>

\* Run on a file that does not exist, with a patch that needs existing text
RunFileMissing(patches) ==
    /\ pc = "idle"
    /\ Len(patches) > 0
    /\ ~fileExists
    /\ ~OnlyCreating(patches)
    /\ input' = patches
    /\ out' = ErrorOut(<<Err("file does not exist", <<>>)>>, <<>>)
    /\ pc' = "done"
    /\ clipboardsAtStart' = clipboards
    /\ UNCHANGED <<path, other, serialized, disk, clipboards, i, batch, calls, lastWrite>>

\* RunStart with p.clipboards made anew at every call
RunStartFresh(patches) ==
    /\ pc = "idle"
    /\ Len(patches) > 0
    /\ fileExists \/ OnlyCreating(patches)
    /\ input' = patches
    /\ orig' = IF fileExists THEN fileData ELSE <<>>
    /\ buf' = <<>>
    /\ patchErr' = <<>>
    /\ clipboardsModified' = <<>>
    /\ log' = <<>>
    /\ i' = 1
    /\ pc' = "loop"
    /\ clipboards' = <<>>
    /\ clipboardsAtStart' = clipboards
    /\ UNCHANGED <<path, other, serialized, disk, out, calls, lastWrite>>

\* Run up to the loop: the file is read once
RunStart(patches) ==
    /\ pc = "idle"
    /\ Len(patches) > 0
    /\ fileExists \/ OnlyCreating(patches)
    /\ input' = patches
    /\ orig' = IF fileExists THEN fileData ELSE <<>>
    /\ buf' = <<>>
    /\ patchErr' = <<>>
    /\ clipboardsModified' = <<>>
    /\ log' = <<>>
    /\ i' = 1
    /\ pc' = "loop"
    /\ clipboardsAtStart' = clipboards
    /\ UNCHANGED <<path, other, serialized, disk, clipboards, out, calls, lastWrite>>

\* the assignments to p.clipboards of one iteration, as the last write per
\* name: toClipboard assigns the old text of the request, updateToClipboard
\* the text of the matched span
Written(lw, patch, it, origStr) ==
    IF patch.ToClipboard = "" \/ it.abort \in {"to_clipboard_operation", "to_clipboard_empty_old_text"}
    THEN lw
    ELSE IF it.outcome.spec.ok /\ it.outcome.update
    THEN SetClipboard(lw, patch.ToClipboard,
                      [text |-> Slice(origStr, it.outcome.spec.Off, it.outcome.spec.Len),
                       by |-> "updateToClipboard", old |-> patch.OldText])
    ELSE SetClipboard(lw, patch.ToClipboard,
                      [text |-> patch.OldText, by |-> "toClipboard", old |-> patch.OldText])

\* the record of an iteration
LogEntry(patch, it) ==
    [patch |-> patch, abort |-> it.abort, newText |-> it.newText,
     outcome |-> it.outcome, clipboards |-> it.clipboards]

\* one iteration of the loop that goes on to the next patch
ResolveOp ==
    /\ pc = "loop"
    /\ i <= Len(input)
    /\ \E it \in {LoopBody(input[i], orig, clipboards, buf, patchErr, clipboardsModified)} :
           /\ it.abort = ""
           /\ clipboards' = it.clipboards
           /\ buf' = it.buf
           /\ patchErr' = it.patchErr
           /\ clipboardsModified' = it.clipboardsModified
           /\ log' = Append(log, LogEntry(input[i], it))
           /\ lastWrite' = Written(lastWrite, input[i], it, orig)
    /\ i' = i + 1
    /\ UNCHANGED <<path, other, serialized, disk, pc, input, orig, out, calls, clipboardsAtStart>>

\* one iteration of the loop that returns an error
AbortOp ==
    /\ pc = "loop"
    /\ i <= Len(input)
    /\ \E it \in {LoopBody(input[i], orig, clipboards, buf, patchErr, clipboardsModified)} :
           /\ it.abort # ""
           /\ clipboards' = it.clipboards
           /\ log' = Append(log, LogEntry(input[i], it))
           /\ out' = ErrorOut(<<Err(it.abort, it.detail)>>, <<>>)
           /\ lastWrite' = Written(lastWrite, input[i], it, orig)
    /\ pc' = "done"
    /\ UNCHANGED <<path, other, serialized, disk, input, i, orig, buf, patchErr, clipboardsModified,
                   calls, clipboardsAtStart>>

\* after the loop: matching errors were joined
RejectPatchErr ==
    /\ pc = "loop"
    /\ i > Len(input)
    /\ patchErr # <<>>
    /\ out' = ErrorOut(patchErr, clipboardsModified)
    /\ pc' = "done"
    /\ UNCHANGED <<path, other, serialized, disk, clipboards, input, i, batch, calls, clipboardsAtStart, lastWrite>>

\* after the loop: the edit buffer reports an error
RejectBytes ==
    /\ pc = "loop"
    /\ i > Len(input)
    /\ patchErr = <<>>
    /\ ~Bytes(orig, buf).ok
    /\ out' = ErrorOut(<<Err("overlapping edits", <<>>)>>, <<>>)
    /\ pc' = "done"
    /\ UNCHANGED <<path, other, serialized, disk, clipboards, input, i, batch, calls, clipboardsAtStart, lastWrite>>

\* Commit without the check of patchErr
CommitDespiteErrors ==
    /\ pc = "loop"
    /\ i > Len(input)
    /\ Bytes(orig, buf).ok
    /\ fileExists' = TRUE
    /\ fileData' = Bytes(orig, buf).data
    /\ writes' = writes + 1
    /\ out' = AppliedOut(clipboardsModified)
    /\ pc' = "done"
    /\ UNCHANGED <<path, other, serialized, clipboards, input, i, batch, calls, clipboardsAtStart, lastWrite>>

\* Commit with an overlap resolved in favour of the last edit
CommitDespiteOverlap ==
    /\ pc = "loop"
    /\ i > Len(input)
    /\ patchErr = <<>>
    /\ fileExists' = TRUE
    /\ fileData' = IF Bytes(orig, buf).ok THEN Bytes(orig, buf).data
                    ELSE Bytes(orig, <<buf[Len(buf)]>>).data
    /\ writes' = writes + 1
    /\ out' = AppliedOut(clipboardsModified)
    /\ pc' = "done"
    /\ UNCHANGED <<path, other, serialized, clipboards, input, i, batch, calls, clipboardsAtStart, lastWrite>>

\* after the loop: the patched contents are written
Commit ==
    /\ pc = "loop"
    /\ i > Len(input)
    /\ patchErr = <<>>
    /\ Bytes(orig, buf).ok
    /\ fileExists' = TRUE
    /\ fileData' = Bytes(orig, buf).data
    /\ writes' = writes + 1
    /\ out' = AppliedOut(clipboardsModified)
    /\ pc' = "done"
    /\ UNCHANGED <<path, other, serialized, clipboards, input, i, batch, calls, clipboardsAtStart, lastWrite>>

\* Run is called with a batch
Run ==
    /\ pc = "idle"
    /\ \E patches \in Batches :
        \/ RunNoPatches(patches)
        \/ RunFileMissing(patches)
        \/ RunStart(patches)

Next ==
    \/ Run
    \/ ResolveOp
    \/ AbortOp
    \/ RejectPatchErr
    \/ RejectBytes
    \/ Commit

Spec == Init /\ [][Next]_vars

\* ------------------------------------------------- batches on clipboards

\* the longest batch of the specifications below
MaxClipOps == 2

\* patch requests that use toClipboard and fromClipboard in every way
CapturePatches ==
    { Patch("replace", OldDedent, NewX, "c", "", NoReindent),
      Patch("replace", OldLines, NewX, "c", "", NoReindent),
      Patch("replace", OldTokens, NewX, "c", "", NoReindent),
      Patch("replace", OldA, NewX, "c", "", NoReindent),
      Patch("replace", OldAbsent, NewX, "c", "", NoReindent),
      Patch("replace", OldB, NewX, "c", "", NoReindent),
      Patch("replace", OldAssign, NewX, "", "c", NoReindent),
      Patch("append_eof", <<>>, NewX, "", "c", NoReindent),
      Patch("replace", OldA, NewX, "c", "d", NoReindent),
      Patch("replace", OldA, NewX, "c", "", StripOne),
      Patch("append_eof", <<>>, NewX, "c", "", NoReindent),
      Patch("overwrite", <<>>, NewX, "c", "", NoReindent),
      Patch("prepend_bof", <<>>, NewX, "c", "", NoReindent),
      Patch("replace", <<>>, NewX, "c", "", NoReindent),
      Patch("replace", OldTokens, NewX, "c", "c", NoReindent),
      Patch("replace", OldA, NewX, "c", "c", NoReindent),
      Patch("replace", OldTrim, NewX, "c", "c", NoReindent),
      Patch("overwrite", <<>>, NewX, "", "", NoReindent) }

CaptureBatches == UNION {[1..n -> CapturePatches] : n \in 0..MaxClipOps}

\* Run is called with a batch of those patch requests
CaptureRun ==
    /\ pc = "idle"
    /\ \E patches \in CaptureBatches :
        \/ RunNoPatches(patches)
        \/ RunFileMissing(patches)
        \/ RunStart(patches)

CaptureNext ==
    \/ CaptureRun
    \/ ResolveOp
    \/ AbortOp
    \/ RejectPatchErr
    \/ RejectBytes
    \/ Commit

\* one call of the tool on a batch that uses clipboards
CaptureSpec == Init /\ [][CaptureNext]_vars

\* ------------------------------------------------- one tool, several calls

\* the number of calls of Run on one tool
MaxCalls == 2

\* the patch requests of those calls: captures through tiers 1, 2 and 4,
\* a capture whose replace fails, and pastes
SessionPatches ==
    { Patch("replace", OldDedent, NewX, "c", "", NoReindent),
      Patch("replace", OldTokens, NewX, "c", "", NoReindent),
      Patch("replace", OldA, NewX, "c", "", NoReindent),
      Patch("replace", OldAbsent, NewX, "c", "", NoReindent),
      Patch("replace", OldAssign, NewX, "", "c", NoReindent),
      Patch("append_eof", <<>>, NewX, "", "c", NoReindent) }

SessionBatches == UNION {[1..n -> SessionPatches] : n \in 0..MaxClipOps}

\* Run is called with a batch of the tool's session
SessionRun ==
    /\ pc = "idle"
    /\ \E patches \in SessionBatches :
        \/ RunNoPatches(patches)
        \/ RunFileMissing(patches)
        \/ RunStart(patches)

\* Run returns its output: the locals of patchRun are gone, p.clipboards
\* and the file stay
Return ==
    /\ pc = "done"
    /\ calls + 1 < MaxCalls
    /\ calls' = calls + 1
    /\ pc' = "idle"
    /\ input' = <<>>
    /\ i' = 0
    /\ orig' = <<>>
    /\ buf' = <<>>
    /\ patchErr' = <<>>
    /\ clipboardsModified' = <<>>
    /\ log' = <<>>
    /\ out' = NoOut
    /\ clipboardsAtStart' = clipboards
    /\ UNCHANGED <<path, other, serialized, disk, clipboards, lastWrite>>

SessionNext ==
    \/ SessionRun
    \/ ResolveOp
    \/ AbortOp
    \/ RejectPatchErr
    \/ RejectBytes
    \/ Commit
    \/ Return

\* the calls are made on a Go file, present or missing
SessionInit == Init /\ LikelyGoFile(path)

SessionSpec == SessionInit /\ [][SessionNext]_vars

\* ------------------------------------------------ batches for the ladder

\* the longest batch of the specification on the match ladder
MaxLadderOps == 2

LadderBatches == UNION {[1..n -> Patches] : n \in 0..MaxLadderOps}

\* Run is called with one of the shorter batches
LadderRun ==
    /\ pc = "idle"
    /\ \E patches \in LadderBatches :
        \/ RunNoPatches(patches)
        \/ RunFileMissing(patches)
        \/ RunStart(patches)

LadderNext ==
    \/ LadderRun
    \/ ResolveOp
    \/ AbortOp
    \/ RejectPatchErr
    \/ RejectBytes
    \/ Commit

\* one call of the tool on a batch of at most MaxLadderOps patches
LadderSpec == Init /\ [][LadderNext]_vars

\* ------------------------------------------------- batches that reindent

\* the longest batch of the specifications on reindent and on edits
MaxEditOps == 3

\* reindent requests and texts to reindent: a line that is exactly the
\* prefix to strip, an empty line, a text without terminal newline, and a
\* text whose second and third line lack the prefix
ReTab == [set |-> TRUE, Strip |-> <<SP>>, Add |-> <<">">>]
AddOnly == [set |-> TRUE, Strip |-> <<>>, Add |-> <<">">>]
TextMixed == <<SP, "y", NL, SP, NL, NL, SP, SP, "z">>
TextBad == <<SP, "y", NL, "x", NL, "w">>

ReindentPatches ==
    { Patch("append_eof", <<>>, NewIndented, "", "", ReTab),
      Patch("append_eof", <<>>, TextMixed, "", "", ReTab),
      Patch("replace", OldA, TextMixed, "", "", StripOne),
      Patch("prepend_bof", <<>>, TextBad, "", "", StripOne),
      Patch("replace", OldA, TextBad, "", "", ReTab),
      Patch("replace", OldAbsent, NewIndented, "", "", ReTab),
      Patch("replace", OldDedent, NewX, "c", "", NoReindent),
      Patch("append_eof", <<>>, NewX, "", "c", ReTab),
      Patch("prepend_bof", <<>>, NewX, "", "c", NoReindent),
      Patch("replace", OldAssign, NewX, "", "c", AddOnly) }

ReindentBatches == UNION {[1..n -> ReindentPatches] : n \in 0..MaxEditOps}

\* Run is called with a batch of those patch requests
ReindentRun ==
    /\ pc = "idle"
    /\ \E patches \in ReindentBatches :
        \/ RunNoPatches(patches)
        \/ RunFileMissing(patches)
        \/ RunStart(patches)

ReindentNext ==
    \/ ReindentRun
    \/ ResolveOp
    \/ AbortOp
    \/ RejectPatchErr
    \/ RejectBytes
    \/ Commit

\* one call of the tool on a batch that reindents, on a Go file
ReindentSpec == SessionInit /\ [][ReindentNext]_vars

\* ------------------------------------------------ patchRun as a function

\* the loop over the patches from patch k on, ended by the first abort
RECURSIVE PatchLoop(_, _, _, _)
PatchLoop(patches, k, origStr, it) ==
    IF k > Len(patches) \/ it.abort # "" THEN it
    ELSE PatchLoop(patches, k + 1, origStr,
                   LoopBody(patches[k], origStr, it.clipboards, it.buf, it.patchErr,
                            it.clipboardsModified))

\* what patchRun returns and writes once the loop has left `it`
Finish(origStr, it) ==
    IF it.abort # "" \/ it.patchErr # <<>> \/ ~Bytes(origStr, it.buf).ok
    THEN [kind |-> "error", data |-> origStr]
    ELSE [kind |-> "applied", data |-> Bytes(origStr, it.buf).data]

\* patchRun on an existing file with contents origStr: the kind of the
\* response and the contents of the file afterwards
PatchRunOf(patches, origStr, clips) ==
    IF patches = <<>> THEN [kind |-> "error", data |-> origStr]
    ELSE Finish(origStr, PatchLoop(patches, 1, origStr,
                                   Iter("", clips, <<>>, <<>>, <<>>, <<>>, NoOutcome)))

\* p.clipboards after patchRun on an existing file with contents origStr
ClipboardsAfter(patches, origStr, clips) ==
    PatchLoop(patches, 1, origStr, Iter("", clips, <<>>, <<>>, <<>>, <<>>, NoOutcome)).clipboards

\* the file after two calls of Run, one after the other, on a fresh tool
SerialFinal(first, second, data) ==
    PatchRunOf(second, PatchRunOf(first, data, <<>>).data,
               ClipboardsAfter(first, data, <<>>)).data

\* ------------------------------------------- batches of edits on one text

OldBrace == <<"{">>
NewWide == <<"z", "z">>

\* patch requests without clipboards: replaces of three spans that lie
\* apart, a replace of text that only a replacement has, a replace of a
\* line that holds the span of another, a replace found by tokens, the
\* insertions at both ends and a replace without old text
EditPatches ==
    { Patch("replace", OldA, NewX, "", "", NoReindent),
      Patch("replace", NewX, OldA, "", "", NoReindent),
      Patch("replace", OldDedent, <<>>, "", "", NoReindent),
      Patch("replace", OldAssign, NewWide, "", "", NoReindent),
      Patch("replace", OldTokens, NewX, "", "", NoReindent),
      Patch("replace", OldBrace, NewWide, "", "", NoReindent),
      Patch("prepend_bof", <<>>, NewX, "", "", NoReindent),
      Patch("append_eof", <<>>, NewIndented, "", "", NoReindent),
      Patch("replace", <<>>, NewX, "", "", NoReindent) }

EditBatches == UNION {[1..n -> EditPatches] : n \in 0..MaxEditOps}

\* Run is called with a batch of those patch requests
EditRun ==
    /\ pc = "idle"
    /\ \E patches \in EditBatches :
        \/ RunNoPatches(patches)
        \/ RunFileMissing(patches)
        \/ RunStart(patches)

EditNext ==
    \/ EditRun
    \/ ResolveOp
    \/ AbortOp
    \/ RejectPatchErr
    \/ RejectBytes
    \/ Commit

\* one call of the tool on a batch of edits, on a Go file
EditSpec == SessionInit /\ [][EditNext]_vars

\* ------------------------------------------- two calls of Run on one tool

\* the longest batch of the two calls
MaxRacingOps == 2

\* the patch requests of the first call: copies into c and a replace from c
CopyPatches ==
    { Patch("replace", OldA, NewX, "c", "c", NoReindent),
      Patch("replace", OldAssign, NewX, "c", "c", NoReindent),
      Patch("replace", OldAbsent, NewX, "", "c", NoReindent) }
\* the patch requests of the second call: pastes from c
PastePatches ==
    { Patch("append_eof", <<>>, NewX, "", "c", NoReindent),
      Patch("replace", OldA, NewX, "", "c", NoReindent),
      Patch("replace", OldAbsent, NewX, "", "c", NoReindent) }

CopyBatches == UNION {[1..n -> CopyPatches] : n \in 0..MaxRacingOps}
PasteBatches == UNION {[1..n -> PastePatches] : n \in 0..MaxRacingOps}

\* a patch request reads or assigns p.clipboards
UsesClipboards(patch) == patch.ToClipboard # "" \/ patch.FromClipboard # ""

\* Run of the first call while the second, which found p.clipboards nil as
\* the first does, is in its loop: the map made at lines 293-295 replaces
\* the one the second call made and assigned to
RunStartRacing(patches) ==
    /\ pc = "idle"
    /\ ~serialized
    /\ other.pc = "loop"
    /\ other.clipboardsAtStart = <<>>
    /\ Len(patches) > 0
    /\ fileExists \/ OnlyCreating(patches)
    /\ input' = patches
    /\ orig' = IF fileExists THEN fileData ELSE <<>>
    /\ buf' = <<>>
    /\ patchErr' = <<>>
    /\ clipboardsModified' = <<>>
    /\ log' = <<>>
    /\ i' = 1
    /\ pc' = "loop"
    /\ clipboards' = <<>>
    /\ clipboardsAtStart' = <<>>
    /\ lastWrite' = <<>>
    /\ UNCHANGED <<path, other, serialized, disk, out, calls>>

\* Run is called for the first call; a caller that serializes waits for
\* the second call to return
RacingRun ==
    /\ pc = "idle"
    /\ serialized => other.pc # "loop"
    /\ \E patches \in CopyBatches :
        \/ RunNoPatches(patches)
        \/ RunStart(patches)
        \/ RunStartRacing(patches)

\* Run of the second call without patches
OtherNoPatches(patches) ==
    /\ other.pc = "idle"
    /\ serialized => pc # "loop"
    /\ Len(patches) = 0
    /\ other' = [other EXCEPT !.pc = "done",
                              !.out = ErrorOut(<<Err("no patches provided", <<>>)>>, <<>>),
                              !.clipboardsAtStart = clipboards]
    /\ UNCHANGED <<path, serialized, disk, clipboards, pc, input, i, batch, out, calls,
                   clipboardsAtStart, lastWrite>>

\* the locals of the second call as its loop starts
Started(patches, clips) ==
    [pc |-> "loop", input |-> patches, i |-> 1,
     orig |-> IF fileExists THEN fileData ELSE <<>>,
     buf |-> <<>>, patchErr |-> <<>>, clipboardsModified |-> <<>>, log |-> <<>>,
     out |-> NoOut, clipboardsAtStart |-> clips]

\* OtherStart by a caller that lets the second call run into the first
OtherStartUnserialized(patches) ==
    /\ other.pc = "idle"
    /\ Len(patches) > 0
    /\ fileExists \/ OnlyCreating(patches)
    /\ other' = Started(patches, clipboards)
    /\ UNCHANGED <<path, serialized, disk, clipboards, pc, input, i, batch, out, calls,
                   clipboardsAtStart, lastWrite>>

\* Run of the second call on a file that exists; a caller that serializes
\* waits for the first call to return
OtherStart(patches) ==
    /\ other.pc = "idle"
    /\ serialized => pc # "loop"
    /\ Len(patches) > 0
    /\ fileExists \/ OnlyCreating(patches)
    /\ other' = Started(patches, clipboards)
    /\ UNCHANGED <<path, serialized, disk, clipboards, pc, input, i, batch, out, calls,
                   clipboardsAtStart, lastWrite>>

\* Run of the second call while the first, which found p.clipboards nil
\* as the second does, is in its loop: the map made at lines 293-295
\* replaces the one the first call made and assigned to
OtherStartRacing(patches) ==
    /\ other.pc = "idle"
    /\ ~serialized
    /\ pc = "loop"
    /\ clipboardsAtStart = <<>>
    /\ Len(patches) > 0
    /\ fileExists \/ OnlyCreating(patches)
    /\ other' = Started(patches, <<>>)
    /\ clipboards' = <<>>
    /\ lastWrite' = <<>>
    /\ UNCHANGED <<path, serialized, disk, pc, input, i, batch, out, calls, clipboardsAtStart>>

\* Run is called for the second call
OtherRun ==
    \E patches \in PasteBatches :
        \/ OtherNoPatches(patches)
        \/ OtherStart(patches)
        \/ OtherStartRacing(patches)

\* one iteration of the loop of the second call that goes on
OtherResolveOp ==
    /\ other.pc = "loop"
    /\ other.i <= Len(other.input)
    /\ \E it \in {LoopBody(other.input[other.i], other.orig, clipboards, other.buf,
                           other.patchErr, other.clipboardsModified)} :
           /\ it.abort = ""
           /\ clipboards' = it.clipboards
           /\ other' = [other EXCEPT !.buf = it.buf,
                                     !.patchErr = it.patchErr,
                                     !.clipboardsModified = it.clipboardsModified,
                                     !.log = Append(@, LogEntry(other.input[other.i], it)),
                                     !.i = @ + 1]
           /\ lastWrite' = Written(lastWrite, other.input[other.i], it, other.orig)
    /\ UNCHANGED <<path, serialized, disk, pc, input, i, batch, out, calls, clipboardsAtStart>>

\* one iteration of the loop of the second call that returns an error
OtherAbortOp ==
    /\ other.pc = "loop"
    /\ other.i <= Len(other.input)
    /\ \E it \in {LoopBody(other.input[other.i], other.orig, clipboards, other.buf,
                           other.patchErr, other.clipboardsModified)} :
           /\ it.abort # ""
           /\ clipboards' = it.clipboards
           /\ other' = [other EXCEPT !.pc = "done",
                                     !.log = Append(@, LogEntry(other.input[other.i], it)),
                                     !.out = ErrorOut(<<Err(it.abort, it.detail)>>, <<>>)]
           /\ lastWrite' = Written(lastWrite, other.input[other.i], it, other.orig)
    /\ UNCHANGED <<path, serialized, disk, pc, input, i, batch, out, calls, clipboardsAtStart>>

\* after the loop of the second call: matching errors were joined
OtherRejectPatchErr ==
    /\ other.pc = "loop"
    /\ other.i > Len(other.input)
    /\ other.patchErr # <<>>
    /\ other' = [other EXCEPT !.pc = "done",
                              !.out = ErrorOut(other.patchErr, other.clipboardsModified)]
    /\ UNCHANGED <<path, serialized, disk, clipboards, pc, input, i, batch, out, calls,
                   clipboardsAtStart, lastWrite>>

\* after the loop of the second call: the edit buffer reports an error
OtherRejectBytes ==
    /\ other.pc = "loop"
    /\ other.i > Len(other.input)
    /\ other.patchErr = <<>>
    /\ ~Bytes(other.orig, other.buf).ok
    /\ other' = [other EXCEPT !.pc = "done",
                              !.out = ErrorOut(<<Err("overlapping edits", <<>>)>>, <<>>)]
    /\ UNCHANGED <<path, serialized, disk, clipboards, pc, input, i, batch, out, calls,
                   clipboardsAtStart, lastWrite>>

\* after the loop of the second call: the patched contents are written
OtherCommit ==
    /\ other.pc = "loop"
    /\ other.i > Len(other.input)
    /\ other.patchErr = <<>>
    /\ Bytes(other.orig, other.buf).ok
    /\ fileExists' = TRUE
    /\ fileData' = Bytes(other.orig, other.buf).data
    /\ writes' = writes + 1
    /\ other' = [other EXCEPT !.pc = "done", !.out = AppliedOut(other.clipboardsModified)]
    /\ UNCHANGED <<path, serialized, clipboards, pc, input, i, batch, out, calls,
                   clipboardsAtStart, lastWrite>>

\* both calls are about to access p.clipboards and one of them assigns to
\* it: the Go runtime may end the process (concurrent map writes, or
\* concurrent map read and map write)
Fatal ==
    /\ pc = "loop" /\ i <= Len(input)
    /\ other.pc = "loop" /\ other.i <= Len(other.input)
    /\ UsesClipboards(input[i]) /\ UsesClipboards(other.input[other.i])
    /\ input[i].ToClipboard # "" \/ other.input[other.i].ToClipboard # ""
    /\ pc' = "fatal"
    /\ other' = [other EXCEPT !.pc = "fatal"]
    /\ UNCHANGED <<path, serialized, disk, clipboards, input, i, batch, out, calls,
                   clipboardsAtStart, lastWrite>>

RacingNext ==
    \/ RacingRun
    \/ ResolveOp
    \/ AbortOp
    \/ RejectPatchErr
    \/ RejectBytes
    \/ Commit
    \/ OtherRun
    \/ OtherResolveOp
    \/ OtherAbortOp
    \/ OtherRejectPatchErr
    \/ OtherRejectBytes
    \/ OtherCommit
    \/ Fatal

\* a tool on an existing Go file whose caller serializes the calls or not
RacingInit == Fresh /\ fileExists /\ LikelyGoFile(path) /\ serialized \in BOOLEAN

\* two calls of Run on one tool
RacingSpec == RacingInit /\ [][RacingNext]_vars

\* ---------------------------------------------------------------- claims

Kinds == {"replace", "prepend_bof", "append_eof", "overwrite"}
Creating == {"prepend_bof", "append_eof", "overwrite"}

\* the loop reached the matchers for entry e of the log
Matched(e) == e.outcome.tried # <<>>
\* entry e is a replace that ended not found or not unique
MatchFailed(e) == Matched(e) /\ ~e.outcome.spec.ok
\* entry e is a replace whose edit was registered
MatchApplied(e) == Matched(e) /\ e.outcome.spec.ok
\* the entries of the log that satisfy a test, in order
FailedEntries == SelectSeq(log, MatchFailed)
\* the file on disk is as it was when the batch started
FileUntouched == writes = 0 /\ (fileExists => fileData = orig)

\* C1: batch atomicity. If a replace of the batch ended not found or not
\* unique, the file is not written, whatever the other operations are; and
\* the file is written only when every operation of the batch was resolved
\* without error.
C1_BatchAtomicity ==
    /\ (\E k \in 1..Len(log) : MatchFailed(log[k])) => FileUntouched /\ fileExists
    /\ writes > 0 =>
        /\ Len(log) = Len(input)
        /\ \A k \in 1..Len(log) : log[k].abort = "" /\ ~MatchFailed(log[k])
        /\ patchErr = <<>>

\* a batch of three replaces ended with the second one not found although
\* the first and the third matched, and nothing was written
C1_Witness ==
    /\ pc = "done"
    /\ Len(log) = 3
    /\ MatchApplied(log[1]) /\ MatchFailed(log[2]) /\ MatchApplied(log[3])
    /\ log[2].outcome.method = "not_found"
    /\ writes = 0

\* the error a failed entry of the log stands for
ErrorOf(e) ==
    Err(IF e.outcome.method = "not_unique" THEN "old text not unique" ELSE "old text not found",
        e.patch.OldText)

\* the batch ran into no structural error
NoAbort == \A k \in 1..Len(log) : log[k].abort = ""

\* C2: matching errors are recoverable. A replace that ends not found or
\* not unique does not end the batch: the loop stops before the last patch
\* only on a structural error, and a batch without structural error that
\* had failing replaces is rejected with exactly one error per failing
\* replace, in request order, and none for the others.
C2_Recoverable ==
    /\ \A k \in 1..Len(log) : log[k].patch = input[k]
    /\ pc = "loop" => Len(log) = i - 1 /\ NoAbort
    /\ (pc = "done" /\ 0 < Len(log) /\ Len(log) < Len(input)) => log[Len(log)].abort # ""
    /\ (pc = "done" /\ NoAbort /\ FailedEntries # <<>>) =>
        /\ Len(log) = Len(input)
        /\ out.kind = "error"
        /\ Len(out.errs) = Len(FailedEntries)
        /\ \A k \in 1..Len(FailedEntries) : out.errs[k] = ErrorOf(FailedEntries[k])

\* a batch whose first and third replace failed and whose second matched
\* was rejected with the two errors
C2_Witness ==
    /\ pc = "done"
    /\ Len(log) = 3
    /\ MatchFailed(log[1]) /\ MatchApplied(log[2]) /\ MatchFailed(log[3])
    /\ log[1].outcome.method # log[3].outcome.method
    /\ Len(out.errs) = 2

\* the clipboards before entry k of the log was resolved
ClipboardsBefore(k) == IF k = 1 THEN clipboardsAtStart ELSE log[k - 1].clipboards

\* the text a patch's reindent is applied to, toClipboard done
SourceText(patch, before) ==
    IF patch.FromClipboard = "" THEN patch.NewText
    ELSE IF patch.FromClipboard = patch.ToClipboard THEN patch.OldText
    ELSE before[patch.FromClipboard]

\* the structural errors of a patch, given the clipboards before it
CaptureMisuse(patch) == patch.ToClipboard # "" /\ patch.Operation # "replace"
EmptyOldText(patch) == patch.Operation = "replace" /\ patch.OldText = <<>>
UnknownKind(patch) == patch.Operation \notin Kinds
ClipboardMiss(patch, before) ==
    /\ patch.FromClipboard # ""
    /\ patch.FromClipboard \notin DOMAIN before
    /\ patch.FromClipboard # patch.ToClipboard
PrefixMismatch(patch, before) ==
    /\ patch.Reindent.set
    /\ ~ClipboardMiss(patch, before)
    /\ \E l \in 1..Len(Split(SourceText(patch, before))) :
        /\ Split(SourceText(patch, before))[l] # <<>>
        /\ ~HasPrefix(Split(SourceText(patch, before))[l], patch.Reindent.Strip)
Structural(patch, before) ==
    \/ CaptureMisuse(patch)
    \/ EmptyOldText(patch)
    \/ UnknownKind(patch)
    \/ ClipboardMiss(patch, before)
    \/ PrefixMismatch(patch, before)

\* C3: structural errors abort the batch. When the operation the loop is at
\* has a clipboard miss, a reindent prefix mismatch, an unrecognized kind,
\* an empty oldText on replace or toClipboard on another kind than replace,
\* the batch ends rejected at that operation: no later operation is
\* resolved, and the file is not written.
C3_StructuralAbort ==
    \A k \in 1..Len(log) :
        Structural(log[k].patch, ClipboardsBefore(k)) =>
            /\ k = Len(log)
            /\ pc = "done"
            /\ i = k
            /\ out.kind = "error"
            /\ Len(out.errs) = 1
            /\ log[k].clipboards = clipboards
            /\ ~Matched(log[k])
            /\ FileUntouched

\* a batch of three patches was rejected at its second, a clipboard miss,
\* after its first had been registered
C3_Witness ==
    /\ pc = "done"
    /\ Len(input) = 3
    /\ Len(log) = 2
    /\ Len(buf) = 1
    /\ ClipboardMiss(log[2].patch, ClipboardsBefore(2))
    /\ input[3].Operation = "replace"

\* the errors and the notes of the response, as sets
OutErrs == {out.errs[k] : k \in 1..Len(out.errs)}
OutNotes == {out.notes[k] : k \in 1..Len(out.notes)}

\* C4: no error is swallowed. Every matching error recorded for an
\* operation of a batch is in the batch's response, also when a later
\* operation aborts the batch with a structural error.
C4_NoErrorSwallowed ==
    pc = "done" =>
        \A k \in 1..Len(log) : MatchFailed(log[k]) => ErrorOf(log[k]) \in OutErrs

\* C5: missing file. When the file does not exist and some operation of the
\* batch is not prepend_bof, append_eof or overwrite, the batch is rejected
\* before any operation is resolved: no matcher is run, no clipboard is
\* written, no edit is registered and no file is created.
C5_MissingFile ==
    (pc # "idle" /\ ~fileExists /\ \E k \in 1..Len(input) : input[k].Operation \notin Creating) =>
        /\ pc = "done"
        /\ out = ErrorOut(<<Err("file does not exist", <<>>)>>, <<>>)
        /\ log = <<>>
        /\ buf = <<>>
        /\ clipboards = <<>>
        /\ writes = 0

\* a batch on a missing file whose first patch creates and whose second is a
\* capturing replace was rejected
C5_Witness ==
    /\ pc = "done"
    /\ ~fileExists
    /\ Len(input) >= 2
    /\ input[1].Operation \in Creating
    /\ input[2].Operation = "replace"
    /\ input[2].ToClipboard # ""
    /\ out.kind = "error"

\* what tier t finds for the replace of entry e: a unique span or none
TierSpec(t, e) ==
    IF t = 1 THEN Unique(orig, e.patch.OldText).spec
    ELSE IF t = 2 THEN UniqueDedent(orig, e.patch.OldText)
    ELSE IF t = 3 THEN UniqueInValidGo(orig, e.patch.OldText, e.newText)
    ELSE IF t = 4 THEN UniqueGoTokens(orig, e.patch.OldText)
    ELSE UniqueTrim(orig, e.patch.OldText)

\* the number of candidate matches tier t has for the replace of entry e
Candidates(t, e) ==
    IF t = 1 THEN Cardinality(Occurrences(orig, e.patch.OldText))
    ELSE IF t = 2 THEN Cardinality(DedentAlignments(orig, e.patch.OldText))
    ELSE IF t = 3 THEN Cardinality(ValidGoCandidates(orig, e.patch.OldText))
    ELSE IF t = 4 THEN Cardinality(TokenWindows(orig, e.patch.OldText))
    ELSE Cardinality(TrimOccurrences(orig, e.patch.OldText))

\* the tier of a matcher that applied
TierOf(method) ==
    IF method = "unique" THEN 1
    ELSE IF method = "unique_dedent" THEN 2
    ELSE IF method = "unique_in_valid_go" THEN 3
    ELSE IF method = "unique_go_tokens" THEN 4
    ELSE IF method = "unique_trim" THEN 5
    ELSE 0

\* the tiers tried for entry e, as a set
Tried(e) == {e.outcome.tried[j] : j \in 1..Len(e.outcome.tried)}

\* C6: ladder order. The tiers are tried in the order 1, 2, 3, 4, 5; the
\* edit registered is the span of the lowest tier that finds a unique match
\* and no tier is run after it; not found is recorded only when all five
\* tiers found no match.
C6_LadderOrder ==
    \A k \in 1..Len(log) : Matched(log[k]) =>
        /\ \A j \in 1..Len(log[k].outcome.tried) : log[k].outcome.tried[j] = j
        /\ MatchApplied(log[k]) =>
            /\ TierOf(log[k].outcome.method) = Len(log[k].outcome.tried)
            /\ log[k].outcome.spec = TierSpec(Len(log[k].outcome.tried), log[k])
            /\ \A t \in 1..(Len(log[k].outcome.tried) - 1) : ~TierSpec(t, log[k]).ok
            /\ \E j \in 1..Len(buf) :
                buf[j] = [Off |-> log[k].outcome.spec.Off, Len |-> log[k].outcome.spec.Len,
                          New |-> log[k].newText]
        /\ log[k].outcome.method = "not_found" =>
            /\ Len(log[k].outcome.tried) = 5
            /\ \A t \in 1..5 : ~TierSpec(t, log[k]).ok /\ (t = 1 => Candidates(1, log[k]) = 0)

\* a replace was applied by tier 2 at a span that tier 4 would have found
\* differently, and another by tier 5 after four tiers found nothing
C6_Witness ==
    \E k, l \in 1..Len(log) :
        /\ log[k].outcome.method = "unique_dedent"
        /\ TierSpec(4, log[k]).ok
        /\ TierSpec(4, log[k]) # log[k].outcome.spec
        /\ log[l].outcome.method = "unique_trim"

\* C7 as claimed: at any tier two or more candidates stop the ladder, the
\* operation is reported as not unique, no looser tier is tried and no edit
\* is registered.
C7_AmbiguityStopsAnyTier ==
    \A k \in 1..Len(log) : \A t \in Tried(log[k]) :
        Candidates(t, log[k]) >= 2 =>
            /\ Len(log[k].outcome.tried) = t
            /\ log[k].outcome.method = "not_unique"
            /\ ~log[k].outcome.spec.ok

\* C7, amended: two or more verbatim occurrences at tier 1 stop the ladder,
\* the operation is reported as not unique, no looser tier is tried and no
\* edit is registered; at tiers 2 to 5 two or more candidates count as no
\* match, and the ladder goes on to the next tier or, after tier 5, records
\* not found.
C7_AmbiguityStopsTier1 ==
    \A k \in 1..Len(log) : Matched(log[k]) =>
        /\ Candidates(1, log[k]) >= 2 =>
            /\ log[k].outcome.tried = <<1>>
            /\ log[k].outcome.method = "not_unique"
            /\ ~log[k].outcome.spec.ok
            /\ ErrorOf(log[k]) \in {patchErr[j] : j \in 1..Len(patchErr)}
        /\ \A t \in Tried(log[k]) \ {1} :
            Candidates(t, log[k]) >= 2 =>
                /\ log[k].outcome.method # "not_unique"
                /\ t < 5 => t + 1 \in Tried(log[k])
                /\ t = 5 => log[k].outcome.method = "not_found"

\* one replace stopped at tier 1 with two occurrences, another went past
\* tier 4 with two token windows
C7_Witness ==
    \E k, l \in 1..Len(log) :
        /\ Candidates(1, log[k]) >= 2
        /\ Matched(log[k])
        /\ Candidates(4, log[l]) >= 2
        /\ 5 \in Tried(log[l])

\* the offsets where the old text of entry e is found verbatim
Verbatim(e) ==
    {p \in 0..Len(orig) :
        /\ p + Len(e.patch.OldText) <= Len(orig)
        /\ \A j \in 1..Len(e.patch.OldText) : orig[p + j] = e.patch.OldText[j]}

\* C8: exact uniqueness. A non-empty old text found verbatim exactly once
\* is resolved by tier 1 at that offset with the length of the old text;
\* found twice or more it is reported as not unique, never as a match and
\* never as an internal error; found nowhere, tier 1 registers nothing and
\* the ladder goes on to tier 2.
C8_ExactUniqueness ==
    \A k \in 1..Len(log) : Matched(log[k]) =>
        /\ Cardinality(Verbatim(log[k])) = 1 =>
            /\ log[k].outcome.method = "unique"
            /\ log[k].outcome.spec.ok
            /\ log[k].outcome.spec.Off \in Verbatim(log[k])
            /\ log[k].outcome.spec.Len = Len(log[k].patch.OldText)
        /\ Cardinality(Verbatim(log[k])) >= 2 =>
            /\ log[k].outcome.method = "not_unique"
            /\ ~log[k].outcome.spec.ok
        /\ Cardinality(Verbatim(log[k])) = 0 =>
            /\ log[k].outcome.method \notin {"unique", "not_unique"}
            /\ 2 \in Tried(log[k])

\* one batch held a replace found once, one found twice and one found
\* nowhere
C8_Witness ==
    \E k, l, m \in 1..Len(log) :
        /\ Matched(log[k]) /\ Cardinality(Verbatim(log[k])) = 1
        /\ Matched(log[l]) /\ Cardinality(Verbatim(log[l])) >= 2
        /\ Matched(log[m]) /\ Cardinality(Verbatim(log[m])) = 0

\* C9: grammar gating. On a file that is not a Go file, tiers 3 and 4 are
\* not run: the ladder goes from tier 2 to tier 5.
C9_GrammarGating ==
    ~LikelyGoFile(path) =>
        \A k \in 1..Len(log) : 3 \notin Tried(log[k]) /\ 4 \notin Tried(log[k])

\* C10: corrected capture. After a replace with toClipboard c that tier 2,
\* 3 or 4 applied, the clipboard c holds the matched span of the document,
\* and the response of the batch has a note naming c with that text; a
\* replace applied by tier 1 adds no note.
C10_CorrectedCapture ==
    /\ \A k \in 1..Len(log) :
        (MatchApplied(log[k]) /\ log[k].patch.ToClipboard # ""
            /\ TierOf(log[k].outcome.method) \in {2, 3, 4}) =>
            /\ log[k].clipboards[log[k].patch.ToClipboard]
                = Slice(orig, log[k].outcome.spec.Off, log[k].outcome.spec.Len)
            /\ pc = "done" =>
                [name |-> log[k].patch.ToClipboard,
                 text |-> Slice(orig, log[k].outcome.spec.Off, log[k].outcome.spec.Len)]
                    \in OutNotes
    /\ (\A k \in 1..Len(log) : TierOf(log[k].outcome.method) \notin {2, 3, 4}) =>
        out.notes = <<>> /\ clipboardsModified = <<>>

\* the matched span of entry e, as text of the document
Span(e) == Slice(orig, e.outcome.spec.Off, e.outcome.spec.Len)
\* entry e is a capturing replace applied by a tier in T
CapturedBy(e, T) ==
    MatchApplied(e) /\ e.patch.ToClipboard # "" /\ TierOf(e.outcome.method) \in T
\* entry e registered its edit
Registered(e) ==
    \E j \in 1..Len(buf) :
        buf[j] = [Off |-> e.outcome.spec.Off, Len |-> e.outcome.spec.Len, New |-> e.newText]

\* C11: tier-5 capture suppression. A replace with toClipboard c applied by
\* tier 5 registers its edit, the clipboard c is left with what it held
\* before the match (the old text of the request) and not the tier-5 span,
\* and the batch has a note only for each capturing replace of tiers 2 to 4.
C11_TrimSuppression ==
    /\ \A k \in 1..Len(log) : CapturedBy(log[k], {5}) =>
        /\ Registered(log[k])
        /\ log[k].clipboards[log[k].patch.ToClipboard] = log[k].patch.OldText
        /\ log[k].clipboards[log[k].patch.ToClipboard] # Span(log[k])
    /\ Len(clipboardsModified)
        = Cardinality({k \in 1..Len(log) : CapturedBy(log[k], {2, 3, 4})})

\* a batch whose only patch is a capturing replace applied by tier 5 was
\* committed without a note
C11_Witness ==
    /\ pc = "done"
    /\ Len(log) = 1
    /\ CapturedBy(log[1], {5})
    /\ out = AppliedOut(<<>>)
    /\ writes = 1

\* entry e takes its new text from a clipboard that it does not itself
\* assign, and the last assignment to that clipboard was the matched span
\* of a replace applied by tier 2, 3 or 4
PastesAdjusted(e) ==
    /\ e.patch.FromClipboard # ""
    /\ e.patch.FromClipboard # e.patch.ToClipboard
    /\ e.patch.FromClipboard \in DOMAIN lastWrite
    /\ lastWrite[e.patch.FromClipboard].by = "updateToClipboard"

\* the new text entry e must then have
Pasted(e, w) ==
    /\ e.abort # "from_clipboard_miss"
    /\ w.text # w.old
    /\ ~e.patch.Reindent.set =>
        /\ e.newText = w.text
        /\ (e.abort = "" /\ (e.patch.Operation \in Creating \/ MatchApplied(e))) =>
            buf[Len(buf)].New = w.text

\* C12: clipboard fidelity. When the last assignment to clipboard c was
\* made by a replace A applied through tier 2, 3 or 4, an operation B with
\* fromClipboard c, resolved later in the same call or in a later call of
\* the tool, has as its new text the span of the document that A matched,
\* not the old text of A's request, and that is the text it registers.
C12_ClipboardFidelity ==
    (Len(log) > 0 /\ PastesAdjusted(log[Len(log)])) =>
        Pasted(log[Len(log)], lastWrite[log[Len(log)].patch.FromClipboard])

\* a call of the tool committed a paste of a clipboard that an earlier
\* call had filled with the span matched by tier 2, 3 or 4
C12_Witness ==
    /\ calls = 1
    /\ pc = "done"
    /\ Len(log) = 1
    /\ PastesAdjusted(log[1])
    /\ clipboardsAtStart = clipboards
    /\ MatchApplied(log[1])
    /\ writes = 2
    /\ out.kind = "applied"

\* the call ran a batch of one patch, a replace that was applied
OneReplaceApplied == pc = "done" /\ Len(input) = 1 /\ Len(log) = 1 /\ MatchApplied(log[1])

\* entry e is the copy recipe: toClipboard and fromClipboard name the same
\* clipboard, without reindent
IsCopy(e) ==
    /\ e.patch.ToClipboard # ""
    /\ e.patch.FromClipboard = e.patch.ToClipboard
    /\ ~e.patch.Reindent.set

\* C13: copy recipe. A batch of one replace whose toClipboard and
\* fromClipboard name the same clipboard c, without reindent, and whose
\* match succeeds at any tier, writes a file identical to the original and
\* leaves c with the text of the matched span.
C13_CopyRecipe ==
    (OneReplaceApplied /\ IsCopy(log[1])) =>
        /\ out.kind = "applied"
        /\ fileData = orig
        /\ clipboards[log[1].patch.ToClipboard] = Span(log[1])

\* C14: idempotence. A committed batch of one replace whose old text equals
\* its new text, as resolved from the clipboard and reindented, leaves the
\* file with the bytes of the original, at whichever tier it matched.
C14_Idempotence ==
    (OneReplaceApplied /\ out.kind = "applied" /\ log[1].newText = log[1].patch.OldText) =>
        fileData = orig

\* the spans [Off, Off+Len) of two pending edits have a position in common
SpansIntersect(e, f) ==
    \E q \in 0..Len(orig) :
        /\ e.Off <= q /\ q < e.Off + e.Len
        /\ f.Off <= q /\ f.Off + f.Len > q
\* two of the registered edits intersect
Intersecting == \E j, k \in 1..Len(buf) : j < k /\ SpansIntersect(buf[j], buf[k])
\* the error of the edit buffer
OverlapErr == Err("overlapping edits", <<>>)

\* C15 as claimed: every batch in which two registered edits intersect ends
\* rejected with an overlap error and without a write of the file.
C15_OverlapRejected ==
    (pc = "done" /\ Intersecting) =>
        /\ out.kind = "error"
        /\ OverlapErr \in OutErrs
        /\ FileUntouched

\* C15, amended: every batch in which two registered edits intersect ends
\* rejected without a write of the file; the rejection is the overlap error
\* when no matching error was recorded and no structural error ended the
\* batch, and those errors otherwise, the buffer not being materialized
\* then; and no batch is committed with two intersecting edits.
C15_OverlapNeverCommits ==
    /\ Intersecting => FileUntouched
    /\ (pc = "done" /\ Intersecting) =>
        /\ out.kind = "error"
        /\ (patchErr = <<>> /\ NoAbort) => out = ErrorOut(<<OverlapErr>>, <<>>)
        /\ patchErr # <<>> => (OverlapErr \notin OutErrs /\ (NoAbort => out.errs = patchErr))
        /\ ~NoAbort => OverlapErr \notin OutErrs
    /\ out.kind = "applied" => ~Intersecting

\* a batch of two replaces that both matched, on spans that intersect, was
\* rejected with the overlap error
C15_Witness ==
    /\ pc = "done"
    /\ Len(log) = 2
    /\ MatchApplied(log[1]) /\ MatchApplied(log[2])
    /\ Intersecting
    /\ out = ErrorOut(<<OverlapErr>>, <<>>)
    /\ writes = 0

\* the batch holds an overwrite and at least one more patch that registers
\* an edit, and every patch of it was resolved
OverwriteWithOthers ==
    /\ Len(log) = Len(input)
    /\ Len(buf) = Len(input)
    /\ Len(input) >= 2
    /\ \E k \in 1..Len(input) : input[k].Operation = "overwrite"

\* C16: overwrite exclusivity. A batch that holds an overwrite and any
\* other edit is rejected as a conflict and the file is not written, also on
\* an empty or missing file, where overwrite registers the span (0, 0).
C16_OverwriteExclusive ==
    (pc = "done" /\ OverwriteWithOthers) =>
        /\ out.kind = "error"
        /\ writes = 0

\* every clipboard holds the text last assigned to it
LastWriteWins ==
    /\ DOMAIN clipboards = DOMAIN lastWrite
    /\ \A n \in DOMAIN clipboards : clipboards[n] = lastWrite[n].text

\* a step keeps every clipboard name, changes p.clipboards only inside the
\* loop over the patches, and starts a batch from p.clipboards and the file
\* alone: the buffer, the errors, the notes and the log are new
CarriesClipboards ==
    /\ DOMAIN clipboards \subseteq DOMAIN clipboards'
    /\ clipboards' # clipboards => (pc = "loop" /\ input[i].ToClipboard \in DOMAIN clipboards')
    /\ (pc = "idle" /\ pc' = "loop") =>
        /\ clipboardsAtStart' = clipboards
        /\ orig' = (IF fileExists THEN fileData ELSE <<>>)
        /\ buf' = <<>> /\ patchErr' = <<>> /\ clipboardsModified' = <<>> /\ log' = <<>>

\* C17: clipboard persistence. Over any sequence of calls on one tool,
\* committed or rejected, a clipboard name holds the text of the most recent
\* assignment to it, a name once present is never absent afterwards, and a
\* call starts from the clipboards the call before left and from nothing
\* else of it.
C17_ClipboardPersistence == []LastWriteWins /\ [][CarriesClipboards]_vars

\* the second call of a tool was rejected and left in clipboard c another
\* text than the one the first call had left there
C17_Witness ==
    /\ calls = 1
    /\ pc = "done"
    /\ out.kind = "error"
    /\ "c" \in DOMAIN clipboardsAtStart
    /\ clipboards["c"] # clipboardsAtStart["c"]
    /\ lastWrite["c"].text = clipboards["c"]

\* C18: rejected batches leave no effect. After a batch that ended rejected
\* the file is not written and p.clipboards is what it was when the batch
\* started.
C18_RejectedNoEffect ==
    (pc = "done" /\ out.kind = "error") =>
        /\ writes = 0
        /\ clipboards = clipboardsAtStart

\* C19 as claimed: an operation with toClipboard c assigns to c only if its
\* replace matched; one that ended not found or not unique, or that was
\* aborted by a clipboard miss or a reindent mismatch, leaves the clipboards
\* as they were.
C19_CaptureImpliesSuccess ==
    \A k \in 1..Len(log) :
        (log[k].patch.ToClipboard # "" /\ ~MatchApplied(log[k])) =>
            log[k].clipboards = ClipboardsBefore(k)

\* the clipboards that entry e must leave, given those before it: its old
\* text under its toClipboard name, or the matched span after tier 2, 3, 4
CaptureOf(e, before) ==
    SetClipboard(before, e.patch.ToClipboard,
                 IF CapturedBy(e, {2, 3, 4}) THEN Span(e) ELSE e.patch.OldText)

\* C19, amended: capture precedes the match. A replace with toClipboard c
\* and a non-empty old text assigns its old text to c before its new text is
\* resolved and before it is matched: c holds that old text when the
\* replace ends not found or not unique, when it is aborted by a clipboard
\* miss or a reindent mismatch, and when it matches by tier 1 or 5; it holds
\* the matched span when it matches by tier 2, 3 or 4. An operation assigns
\* to no other name, and without toClipboard to none.
C19_CapturePrecedesMatch ==
    \A k \in 1..Len(log) :
        /\ log[k].patch.ToClipboard = "" => log[k].clipboards = ClipboardsBefore(k)
        /\ (log[k].patch.ToClipboard # "" /\ log[k].patch.Operation = "replace"
                /\ log[k].patch.OldText # <<>>) =>
            log[k].clipboards = CaptureOf(log[k], ClipboardsBefore(k))

\* a capturing replace ended not found and the next one was aborted by a
\* clipboard miss, and both left their old text in the clipboard
C19_Witness ==
    /\ pc = "done"
    /\ Len(log) = 2
    /\ log[1].outcome.method = "not_found"
    /\ log[1].clipboards = [c |-> log[1].patch.OldText]
    /\ log[2].abort = "from_clipboard_miss"
    /\ log[2].patch.OldText # log[1].patch.OldText
    /\ clipboards = [c |-> log[2].patch.OldText]

\* the error that toClipboard on entry e must end in: "" when e may capture
CaptureAbort(e) ==
    IF e.patch.ToClipboard = "" THEN ""
    ELSE IF e.patch.Operation # "replace" THEN "to_clipboard_operation"
    ELSE IF e.patch.OldText = <<>> THEN "to_clipboard_empty_old_text"
    ELSE ""

\* C20: capture is replace-only. A prepend_bof, append_eof or overwrite
\* with toClipboard c, and a replace with toClipboard c and an empty old
\* text, end the batch with an error at that operation: nothing is assigned
\* to c or to any clipboard, no edit is registered for it, no later patch is
\* resolved and the file is not written.
C20_CaptureReplaceOnly ==
    \A k \in 1..Len(log) : CaptureAbort(log[k]) # "" =>
        /\ k = Len(log)
        /\ pc = "done"
        /\ log[k].abort = CaptureAbort(log[k])
        /\ out = ErrorOut(<<Err(CaptureAbort(log[k]), <<>>)>>, <<>>)
        /\ log[k].clipboards = ClipboardsBefore(k)
        /\ clipboards = ClipboardsBefore(k)
        /\ Len(buf) < k
        /\ fileExists => fileData = orig

\* an overwrite with toClipboard c ended a batch whose first patch had
\* captured into c, and c kept that capture
C20_Witness ==
    /\ pc = "done"
    /\ Len(log) = 2
    /\ CapturedBy(log[1], {1, 2, 3, 4, 5})
    /\ log[2].patch.Operation = "overwrite"
    /\ log[2].patch.ToClipboard = log[1].patch.ToClipboard
    /\ log[2].abort = "to_clipboard_operation"
    /\ clipboards = log[1].clipboards
    /\ Len(buf) = 1

\* reindent returned a text for entry e
Reindented(e) ==
    /\ e.patch.Reindent.set
    /\ e.abort \notin {"to_clipboard_operation", "to_clipboard_empty_old_text",
                       "from_clipboard_miss", "reindent"}
\* a text ends with a newline
EndsWithNL(t) == Len(t) > 0 /\ t[Len(t)] = NL
\* line l of the output is add followed by line l of the input without strip
LineAsClaimed(inl, outl, adj) ==
    IF inl = <<>> THEN outl = <<>> ELSE outl = adj.Add \o Drop(inl, Len(adj.Strip))
\* the same, a line that is exactly strip coming out empty
LineAsCoded(inl, outl, adj) ==
    IF inl = <<>> \/ inl = adj.Strip THEN outl = <<>>
    ELSE outl = adj.Add \o Drop(inl, Len(adj.Strip))
\* the output has the lines and the terminal newline of the input
SameShape(ins, outs, in, out_) ==
    /\ Len(outs) = Len(ins)
    /\ EndsWithNL(out_) = EndsWithNL(in)
    /\ \A l \in 1..Len(ins) : ins[l] = <<>> => outs[l] = <<>>

\* C21 as claimed: when reindent succeeds the output has the line count and
\* the terminal newline of the input, every empty line stays empty, and
\* every non-empty line, one that is exactly strip included, is add
\* followed by the line without strip.
C21_ReindentResult ==
    \A k \in 1..Len(log) : Reindented(log[k]) =>
        /\ SameShape(Split(SourceText(log[k].patch, ClipboardsBefore(k))), Split(log[k].newText),
                     SourceText(log[k].patch, ClipboardsBefore(k)), log[k].newText)
        /\ \A l \in 1..Len(Split(log[k].newText)) :
            LineAsClaimed(Split(SourceText(log[k].patch, ClipboardsBefore(k)))[l],
                          Split(log[k].newText)[l], log[k].patch.Reindent)

\* C21, amended: when reindent succeeds the output has the line count and
\* the terminal newline of the input, every empty line stays empty, a line
\* that is exactly strip becomes empty without add, and every other line is
\* add followed by the line without strip.
C21_ReindentAsCoded ==
    \A k \in 1..Len(log) : Reindented(log[k]) =>
        /\ SameShape(Split(SourceText(log[k].patch, ClipboardsBefore(k))), Split(log[k].newText),
                     SourceText(log[k].patch, ClipboardsBefore(k)), log[k].newText)
        /\ \A l \in 1..Len(Split(log[k].newText)) :
            LineAsCoded(Split(SourceText(log[k].patch, ClipboardsBefore(k)))[l],
                        Split(log[k].newText)[l], log[k].patch.Reindent)

\* a batch was committed whose patch reindented, with a prefix to add, a
\* text with a line that is exactly strip, an empty line and no terminal
\* newline
C21_Witness ==
    /\ pc = "done"
    /\ out.kind = "applied"
    /\ Len(log) = 1
    /\ log[1].patch.NewText = TextMixed
    /\ log[1].patch.Reindent = ReTab
    /\ log[1].newText = <<">", "y", NL, NL, NL, ">", SP, "z">>

\* line l of the lines is the first non-empty one that lacks the prefix
FirstWithout(lines, strip, l) ==
    /\ lines[l] # <<>>
    /\ ~HasPrefix(lines[l], strip)
    /\ \A j \in 1..(l - 1) : lines[j] = <<>> \/ HasPrefix(lines[j], strip)
\* the entries of the log before entry k that registered an edit
EditsBefore(k) == {j \in 1..(k - 1) : log[j].abort = "" /\ ~MatchFailed(log[j])}
\* the batch ended at entry k with the error of a failed reindent that
\* names the line and the prefix, nothing registered for it, nothing written
ReindentAbort(k, lines, adj) ==
    /\ pc = "done"
    /\ k = Len(log)
    /\ \E l \in 1..Len(lines) :
        /\ FirstWithout(lines, adj.Strip, l)
        /\ out = ErrorOut(<<Err("reindent", <<adj.Strip, adj.Add, lines[l], adj.Strip>>)>>, <<>>)
    /\ log[k].newText = <<>>
    /\ Len(buf) = Cardinality(EditsBefore(k))
    /\ FileUntouched

\* C22: reindent precondition. If a non-empty line of the text to reindent
\* does not start with strip, reindent fails with an error naming the first
\* such line and the expected prefix and returns no text, and the batch ends
\* at that operation with no edit registered for it and no file write.
C22_ReindentPrecondition ==
    \A k \in 1..Len(log) :
        /\ (/\ log[k].patch.Reindent.set
            /\ log[k].abort \notin {"to_clipboard_operation", "to_clipboard_empty_old_text",
                                    "from_clipboard_miss"}
            /\ PrefixMismatch(log[k].patch, ClipboardsBefore(k))) => log[k].abort = "reindent"
        /\ log[k].abort = "reindent" =>
            ReindentAbort(k, Split(SourceText(log[k].patch, ClipboardsBefore(k))),
                          log[k].patch.Reindent)

\* a replace was resolved and registered, then a patch whose text has two
\* lines without the prefix ended the batch, the error naming the first
C22_Witness ==
    /\ pc = "done"
    /\ Len(log) = 2
    /\ MatchApplied(log[1])
    /\ log[2].abort = "reindent"
    /\ log[2].patch.NewText = TextBad
    /\ out.errs[1].text = <<<<SP>>, <<>>, <<"x">>, <<SP>>>>
    /\ Len(buf) = 1
    /\ writes = 0

\* C23: notes on failure. Whenever a batch is rejected, its response has
\* every "clipboard adjusted" note that the operations resolved before the
\* failure produced, whether the batch is rejected for its matching errors
\* or by a structural abort at a later operation.
C23_NotesOnFailure ==
    (pc = "done" /\ out.kind = "error") =>
        \A j \in 1..Len(clipboardsModified) : clipboardsModified[j] \in OutNotes

\* C24: snapshot matching. Every replace of a batch is matched against the
\* text read at the start of the batch: its outcome is that of the ladder on
\* that text, a tier-1 match is the one place where the old text stands in
\* it, and a span found lies within it, whatever the earlier operations of
\* the batch registered.
C24_SnapshotMatching ==
    \A k \in 1..Len(log) : Matched(log[k]) =>
        /\ log[k].outcome = Ladder(orig, log[k].patch.OldText, log[k].newText)
        /\ (log[k].outcome.method = "unique") = (Cardinality(Verbatim(log[k])) = 1)
        /\ log[k].outcome.method = "unique" =>
            /\ Verbatim(log[k]) = {log[k].outcome.spec.Off}
            /\ Span(log[k]) = log[k].patch.OldText
        /\ log[k].outcome.method = "not_found" => Verbatim(log[k]) = {}
        /\ log[k].outcome.spec.ok =>
            log[k].outcome.spec.Off + log[k].outcome.spec.Len <= Len(orig)

\* the first replace removed a line, the second was matched within that
\* line all the same, and the third was not found although its old text is
\* the replacement of the second
C24_Witness ==
    /\ pc = "done"
    /\ Len(log) = 3
    /\ MatchApplied(log[1])
    /\ log[1].newText = <<>>
    /\ log[2].outcome.method = "unique"
    /\ SpansIntersect(log[1].outcome.spec, log[2].outcome.spec)
    /\ log[3].patch.OldText = log[2].newText
    /\ log[3].outcome.method = "not_found"
    /\ out.kind = "error"

\* the new texts of the insertions registered at offset p, in the order of
\* registration, from edit j on
RECURSIVE InsertedAt(_, _)
InsertedAt(p, j) ==
    IF j > Len(buf) THEN <<>>
    ELSE (IF buf[j].Off = p /\ buf[j].Len = 0 THEN buf[j].New ELSE <<>>) \o InsertedAt(p, j + 1)
\* the new texts of the replacements registered at offset p
RECURSIVE ReplacedAt(_, _)
ReplacedAt(p, j) ==
    IF j > Len(buf) THEN <<>>
    ELSE (IF buf[j].Off = p /\ buf[j].Len > 0 THEN buf[j].New ELSE <<>>) \o ReplacedAt(p, j + 1)
\* the byte of the original at offset p, unless a registered span holds it
KeptAt(p) ==
    IF p < Len(orig) /\ \A j \in 1..Len(buf) : ~(buf[j].Off <= p /\ p < buf[j].Off + buf[j].Len)
    THEN <<orig[p + 1]>> ELSE <<>>
\* the original from offset p on, each registered span replaced by its text
RECURSIVE Materialized(_)
Materialized(p) ==
    IF p > Len(orig) THEN <<>>
    ELSE InsertedAt(p, 1) \o ReplacedAt(p, 1) \o KeptAt(p) \o Materialized(p + 1)

\* C25: materialization frame. In a committed batch the bytes written are
\* the original with each registered span replaced by its text, in the order
\* of the offsets, every byte outside the spans unchanged and in place; and
\* an edit found by one of the tiers 2 to 5 is registered for exactly the
\* span that the tier matched.
C25_MaterializationFrame ==
    (pc = "done" /\ out.kind = "applied") =>
        /\ fileData = Materialized(0)
        /\ \A k \in 1..Len(log) :
            (MatchApplied(log[k]) /\ TierOf(log[k].outcome.method) > 1) =>
                /\ log[k].outcome.spec = TierSpec(TierOf(log[k].outcome.method), log[k])
                /\ Registered(log[k])

\* a batch was committed with a replace found by tokens, whose span is
\* shorter than the old text of the request, between a replace at the
\* start of the text and an insertion at its end
C25_Witness ==
    /\ pc = "done"
    /\ out.kind = "applied"
    /\ Len(log) = 3
    /\ log[1].outcome.method = "unique_go_tokens"
    /\ log[1].outcome.spec.Len < Len(log[1].patch.OldText)
    /\ log[2].patch.Operation = "append_eof"
    /\ MatchApplied(log[3]) /\ log[3].outcome.spec.Off = 0
    /\ fileData = <<"z", "z", NL, SP, "a", NL, SP, "b", SP, "b", NL, SP, "x", NL, "}", NL,
                    SP, "y", NL>>

\* the permutations of 1..n and a batch permuted
Perms(n) == {f \in [1..n -> 1..n] : \A j, k \in 1..n : f[j] = f[k] => j = k}
Permuted(patches, f) == [k \in 1..Len(patches) |-> patches[f[k]]]
\* the span that the ladder finds for a replace in the original
MatchedSpan(p) ==
    IF p.OldText = <<>> THEN NoSpec ELSE Ladder(orig, p.OldText, p.NewText).spec
\* two spans with at least one byte between them
Apart(e, f) == e.Off + e.Len < f.Off \/ f.Off + f.Len < e.Off
\* the batch is made of replaces without clipboards whose matched spans lie
\* apart
ReplacesApart(patches) ==
    /\ Len(patches) > 0
    /\ \A k \in 1..Len(patches) :
        /\ patches[k].Operation = "replace"
        /\ patches[k].ToClipboard = "" /\ patches[k].FromClipboard = ""
    /\ \A j, k \in 1..Len(patches) :
        (j < k /\ MatchedSpan(patches[j]).ok /\ MatchedSpan(patches[k]).ok) =>
            Apart(MatchedSpan(patches[j]), MatchedSpan(patches[k]))
\* r is the outcome of the batch that ran, with the same bytes if committed
SameOutcome(r) == r.kind = out.kind /\ (out.kind = "applied" => r.data = fileData)

\* C26: order independence. For a batch of replaces without clipboard
\* fields whose matched spans are pairwise disjoint and not adjacent, every
\* permutation of the batch has the outcome of the batch as it ran,
\* committed or rejected, and when committed the same final bytes.
C26_OrderIndependence ==
    (pc = "done" /\ fileExists /\ ReplacesApart(input)) =>
        \A f \in Perms(Len(input)) :
            SameOutcome(PatchRunOf(Permuted(input, f), orig, clipboardsAtStart))

\* a batch of three replaces that lie apart, with replacements longer and
\* shorter than their spans, was committed
C26_Witness ==
    /\ pc = "done"
    /\ out.kind = "applied"
    /\ Len(input) = 3
    /\ ReplacesApart(input)
    /\ \A k \in 1..3 : MatchApplied(log[k])
    /\ log[1].outcome.spec.Off > log[2].outcome.spec.Off
    /\ \E k \in 1..3 : Len(log[k].newText) > log[k].outcome.spec.Len
    /\ \E k \in 1..3 : Len(log[k].newText) < log[k].outcome.spec.Len
    /\ Len(fileData) # Len(orig)

\* entry k takes its new text from a clipboard that it does not assign,
\* and reindents it
PastesReindented(k) ==
    /\ log[k].patch.FromClipboard # ""
    /\ log[k].patch.FromClipboard # log[k].patch.ToClipboard
    /\ log[k].patch.FromClipboard \in DOMAIN ClipboardsBefore(k)
    /\ log[k].patch.Reindent.set
\* no entry from k to l assigns clipboard c
NotCaptured(c, k, l) == \A m \in k..l : log[m].patch.ToClipboard # c

\* C28: reindent does not touch the store. An operation that takes its new
\* text from clipboard c and reindents it leaves c with the text it held
\* before the operation, and a later operation that takes its new text from
\* c without reindent, no capture into c in between, has the text that c
\* held before the reindent.
C28_ReindentKeepsStore ==
    \A k \in 1..Len(log) : PastesReindented(k) =>
        /\ log[k].clipboards[log[k].patch.FromClipboard]
            = ClipboardsBefore(k)[log[k].patch.FromClipboard]
        /\ \A l \in (k + 1)..Len(log) :
            (/\ log[l].patch.FromClipboard = log[k].patch.FromClipboard
             /\ ~log[l].patch.Reindent.set
             /\ log[l].abort = ""
             /\ NotCaptured(log[k].patch.FromClipboard, k, l)) =>
                log[l].newText = ClipboardsBefore(k)[log[k].patch.FromClipboard]

\* a replace captured a line into c, an append took c reindented, its text
\* differing from c, a prepend then took c as it was captured, and the
\* batch was committed
C28_Witness ==
    /\ pc = "done"
    /\ out.kind = "applied"
    /\ Len(log) = 3
    /\ CapturedBy(log[1], {2})
    /\ PastesReindented(2)
    /\ log[2].newText = <<">", "a", NL>>
    /\ log[3].patch.FromClipboard = "c" /\ ~log[3].patch.Reindent.set
    /\ log[3].newText = <<SP, "a", NL>>
    /\ clipboards["c"] = <<SP, "a", NL>>

\* the contents of the file before any call
InitialData == (CHOOSE f \in Files : f.path = path).data
\* the file as the two calls leave it when one runs after the other
SerialFinals ==
    {SerialFinal(input, other.input, InitialData), SerialFinal(other.input, input, InitialData)}
\* the clipboards as the second call knows them before its entry k
OtherBefore(k) == IF k = 1 THEN other.clipboardsAtStart ELSE other.log[k - 1].clipboards
\* entry e took its new text from a clipboard that it does not assign
Retrieves(e) ==
    /\ e.patch.FromClipboard # ""
    /\ e.patch.FromClipboard # e.patch.ToClipboard
    /\ ~e.patch.Reindent.set
    /\ e.abort \notin {"to_clipboard_operation", "to_clipboard_empty_old_text",
                       "from_clipboard_miss"}
\* the text it took is the one the clipboards held for its own call
OwnView(e, before) ==
    /\ e.patch.FromClipboard \in DOMAIN before
    /\ e.newText = before[e.patch.FromClipboard]
\* entry k of the second call took a text that the first call captured
\* after the second call started
TookForeign(k) ==
    /\ Retrieves(other.log[k])
    /\ ~OwnView(other.log[k], OtherBefore(k))
    /\ other.log[k].patch.FromClipboard \notin DOMAIN other.clipboardsAtStart
    /\ \E j \in 1..Len(log) :
        /\ log[j].patch.ToClipboard = other.log[k].patch.FromClipboard
        /\ log[j].clipboards[log[j].patch.ToClipboard] = other.log[k].newText

\* C27: unserialized batches interfere. With the calls serialized, every
\* text taken from a clipboard is the one the clipboards held at the start
\* of the call or that the call itself captured, the process is not ended,
\* and the file after both calls is the one that a serial order of the two
\* batches produces; without serialization there is an interleaving (the
\* witness) in which a call takes from c a text that the other call captured
\* after it started and commits a file that no serial order produces.
C27_SerializedIsolated ==
    serialized =>
        /\ \A k \in 1..Len(log) : Retrieves(log[k]) => OwnView(log[k], ClipboardsBefore(k))
        /\ \A k \in 1..Len(other.log) :
            Retrieves(other.log[k]) => OwnView(other.log[k], OtherBefore(k))
        /\ pc # "fatal"
        /\ (pc = "done" /\ other.pc = "done") => fileData \in SerialFinals

\* the calls were not serialized; the second call appended the text that
\* the first call had captured into c after the second call started, the
\* first call captured another text after that, and both calls committed,
\* the file being one that neither serial order produces
C27_Witness ==
    /\ ~serialized
    /\ pc = "done" /\ other.pc = "done"
    /\ out.kind = "applied" /\ other.out.kind = "applied"
    /\ Len(other.log) = 1
    /\ other.log[1].patch.Operation = "append_eof"
    /\ TookForeign(1)
    /\ clipboards["c"] # other.log[1].newText
    /\ fileData = InitialData \o other.log[1].newText
    /\ fileData \notin SerialFinals

====
